---------------------------- MODULE Spec2Model ----------------------------
(***************************************************************************)
(* The agrenad ordering backend.  The repository holds several versions    *)
(* of one Express server over a JSON document on disk:                     *)
(*                                                                         *)
(*   "kitchen"  src/unnamed/part_001            cookie sessions in the     *)
(*              file, bcrypt PINs with random ids, open reset routes       *)
(*   "cookie"   src/unnamed/part_000:990-1477   the same with guarded      *)
(*              reset routes and a never-null GET /api/validated           *)
(*   "bearer"   src/unnamed/part_000:95-569     cookie or bearer token     *)
(*   "scoped"   src/unnamed/part_000:571-988    sessions in memory, one    *)
(*              PIN per scope, a master PIN, per-service validation        *)
(*   "jwt"      src/server.js                   owner/chef PINs, JWT       *)
(*   "plain"    src/unnamed/part_002            the orders alone           *)
(*                                                                         *)
(* The variable variant says which server runs.  A handler is one action,  *)
(* except the handlers that await bcrypt between loading and saving the    *)
(* document (login, setup, reset-chef): these are a Begin and an End step  *)
(* with the loaded document kept in pending, so that other requests run    *)
(* in between as they do on node's event loop.                             *)
(*                                                                         *)
(* Time is counted in ticks of four hours.                                 *)
(***************************************************************************)
EXTENDS Integers, Sequences, FiniteSets, TLC

VARIABLES
    variant,    \* which version of the server runs
    env,        \* process.env.SETUP_SECRET || ""
    disk,       \* what fs.writeFileSync does: "ok", "refused" or "full"
    now,        \* Date.now(), in ticks
    file,       \* commandes.json: Missing or the parsed document
    pending,    \* the async handlers suspended in an await, with their locals
    rand,       \* how many random tokens and pin ids crypto.randomBytes has drawn
    sessions,   \* the sessions Map the scoped version keeps in memory
    issued,     \* the tokens jwt.sign has issued to clients
    resp        \* the last response sent

vars == <<variant, env, disk, now, file, pending, rand, sessions, issued, resp>>

-----------------------------------------------------------------------------
(* Bounds of the model.                                                    *)
MaxTime == 3
MaxTokens == 2
MaxPinIds == 3
MaxPending == 2

-----------------------------------------------------------------------------
(* Values.                                                                 *)

\* JavaScript null (and undefined, which JSON does not keep apart from it).
Null == [null |-> TRUE]
\* A file that does not exist.
Missing == [missing |-> TRUE]
\* A timestamp that is null.
NoTime == -1
\* An absent cookie or Authorization header.
NoToken == 0

SERVICES == {"petitdej", "bar", "entretien"}
SESSION_TTL_MS == 2
MAX_PINS == 2
\* The setup secret the process was started with ("" when it has none).
SETUP_SECRET == env

\* JSON values of a request body: t is the type, s the text of a scalar and
\* o the members of an object.
JObj(f) == [t |-> "object", s |-> "", o |-> f]
Bare == JObj([cafe |-> [t |-> "number", s |-> "2", o |-> <<>>]])
Wrapped == JObj([donnees |-> JObj([cafe |-> [t |-> "string", s |-> " 3 ", o |-> <<>>]])])
\* {the: true, lait: null, vin: {}}
Mixed ==
    JObj([the |-> [t |-> "boolean", s |-> "true", o |-> <<>>],
          lait |-> [t |-> "null", s |-> "", o |-> <<>>],
          vin |-> JObj(<<>>)])

\* String.prototype.trim on the strings of the model.
Trim(x) == IF x = " 3 " THEN "3" ELSE IF x = " 1234 " THEN "1234" ELSE x

\* The pattern without its anchors, /\d{4}/.
IsPin4Unanchored(p) == p \in {"1234", "5678", "4321", "9999", "12345"}

\* /^\d{4}$/
IsPin4(p) == p \in {"1234", "5678", "4321", "9999"}

\* bcrypt.hash and bcrypt.compare: the hash is salted, compare recomputes it.
BcryptHash(p) == [alg |-> "bcrypt", of |-> p]
BcryptCompare(p, h) == h = BcryptHash(p)


Restrict(f, S) == [x \in S |-> f[x]]

-----------------------------------------------------------------------------
(* The data layer of the versions that keep sessions in the document       *)
(* (kitchen, cookie, bearer).                                              *)

defaultData ==
    [petitdej |-> Null, bar |-> Null, entretien |-> Null,
     validated |-> Null, pins |-> <<>>, sessions |-> <<>>]

\* The document read back; a missing, empty or unparseable file gives the
\* defaults.  pins is kept as the sequence of its members in insertion order,
\* which is the order of Object.keys.
loadData(f) ==
    IF f = Missing THEN defaultData
    ELSE [petitdej |-> f.petitdej, bar |-> f.bar, entretien |-> f.entretien,
          validated |-> f.validated, pins |-> f.pins, sessions |-> f.sessions]

\* The document saveData writes at time t: the expired sessions are dropped.
saveData(data, t) ==
    [data EXCEPT !.sessions =
        Restrict(@, {k \in DOMAIN @ : ~(@[k].expiresAt <= t)})]

sanitizeNumberLike(v) ==
    IF v.t = "null" THEN ""
    ELSE IF v.t = "number" THEN v.s
    ELSE IF v.t = "string" THEN Trim(v.s)
    ELSE ""

normalizeDonnees(obj) ==
    IF obj.t # "object" THEN <<>>
    ELSE [k \in DOMAIN obj.o |-> sanitizeNumberLike(obj.o[k])]

ensureService(service) == service \in {"petitdej", "bar", "entretien"}

createSession(data, pinId, token, t) ==
    [data EXCEPT !.sessions =
        [k \in DOMAIN @ \cup {token} |->
            IF k = token THEN [pinId |-> pinId, expiresAt |-> t + SESSION_TTL_MS]
            ELSE @[k]]]

\* A getSession that would not look at expiresAt.
getSessionNoExpiry(data, cookie, t) ==
    IF cookie = NoToken THEN Null
    ELSE IF cookie \notin DOMAIN data.sessions THEN Null
    ELSE [token |-> cookie, pinId |-> data.sessions[cookie].pinId,
          expiresAt |-> data.sessions[cookie].expiresAt]

\* The session of the request's cookie, Null when there is none or it expired.
getSession(data, cookie, t) ==
    IF cookie = NoToken THEN Null
    ELSE IF cookie \notin DOMAIN data.sessions THEN Null
    ELSE IF data.sessions[cookie].expiresAt <= t THEN Null
    ELSE [token |-> cookie, pinId |-> data.sessions[cookie].pinId,
          expiresAt |-> data.sessions[cookie].expiresAt]

\* The store after an fs.writeFileSync over f that threw.  The file is opened
\* with flag "w", which truncates it: when open() is refused (a read-only
\* directory) the file is as it was, when write() fails after the open (a
\* full disk) the file is left empty.  Of the files of server.js the model
\* follows the file of the orders.
Thrown(f) ==
    IF disk # "full" THEN f
    ELSE IF variant = "jwt" THEN [f EXCEPT !.commandes = Missing]
    ELSE Missing

\* A middleware that would let the session through without refreshing it.
requireKitchenAuthNoRefresh(f, cookie, t) ==
    [ok |-> getSession(loadData(f), cookie, t) # Null, file |-> f,
     nexts |-> IF getSession(loadData(f), cookie, t) # Null THEN 1 ELSE 0,
     code |-> IF getSession(loadData(f), cookie, t) # Null THEN 0 ELSE 401,
     error |-> "UNAUTHORIZED"]

\* The middleware: ok says whether next() is called, code is the status it
\* answers when it does not, file is the document on disk afterwards (the
\* session's expiry is refreshed and saved).  Its saveData is in no try:
\* when the write throws, express answers 500 and the route does not run.
requireKitchenAuth(f, cookie, t) ==
    LET data == loadData(f)
        sess == getSession(data, cookie, t)
    IN  IF sess = Null THEN [ok |-> FALSE, nexts |-> 0, file |-> f, code |-> 401, error |-> "UNAUTHORIZED"]
        ELSE IF disk # "ok" THEN [ok |-> FALSE, nexts |-> 0, file |-> Thrown(f), code |-> 500,
              error |-> "Internal Server Error"]
        ELSE [ok |-> TRUE, nexts |-> 1, code |-> 0, error |-> "",
              file |-> saveData([data EXCEPT !.sessions[sess.token].expiresAt =
                                    t + SESSION_TTL_MS], t)]

\* The ids of the stored pins, and the first one whose hash matches (0: none).
Ids(pins) == {pins[i].id : i \in DOMAIN pins}

\* A login loop that would stop at the first pin without comparing.
FirstMatchAny(pins, p) == IF pins = <<>> THEN 0 ELSE pins[1].id

FirstMatch(pins, p) ==
    LET hits == {i \in DOMAIN pins : BcryptCompare(p, pins[i].hash)}
    IN  IF hits = {} THEN 0
        ELSE pins[CHOOSE i \in hits : \A j \in hits : i <= j].id

\* res.status(code).json(body); runs is how many times the handler of the
\* route has run when the request is over (0: a middleware answered).
Answer(runs, op, code, body) ==
    resp' = [op |-> op, code |-> code, body |-> body, runs |-> runs]

Reply(op, code, body) == Answer(1, op, code, body)

\* How many times the handler of app.post(path, middleware, handler) runs
\* when the middleware has called next() nexts times.  The route walks its
\* two layers with one index: the first next() runs the handler, a further
\* one finds no layer left, leaves the route and reaches the last
\* app.use("/api", ...), whose res.status(404).json() throws on a response
\* already sent, as does the res.status(500).json() of the error handler.
HandlerRuns(nexts) == IF nexts = 0 THEN 0 ELSE 1

\* try { saveData(data); res.json(body) } catch { res.status(500).json({error}) }
\* with f the document saveData would write.  A handler without a try of
\* its own is caught by express, which answers 500 too.
Saved(f, op, body, error) ==
    IF disk = "ok" THEN file' = f /\ Reply(op, 200, body)
    ELSE file' = Thrown(file) /\ Reply(op, 500, [error |-> error])

\* An async handler that throws after its await: the promise it returned is
\* rejected.  Express 5 hands the rejection to its error handler, which
\* answers 500; Express 4 ignores the promise and the request gets no answer
\* (code 0).  The repository does not say which Express it runs on.
Rejected(op) ==
    \E code \in {0, 500} : Reply(op, code, [error |-> "Internal Server Error"])

Family == {"kitchen", "cookie", "bearer"}
Req(cookie, bearer) == [cookie |-> cookie, bearer |-> bearer]

-----------------------------------------------------------------------------
(* What the cookie and the bearer version change in the data layer.        *)

Undefined == [undefined |-> TRUE]

\* saveData of the cookie version over the store f: called without its
\* argument it throws on data.sessions before anything is written, and it
\* throws when the write does.  file is the store afterwards.
C_saveData(f, data, t) ==
    IF data = Undefined THEN [threw |-> TRUE, file |-> f]
    ELSE IF disk # "ok" THEN [threw |-> TRUE, file |-> Thrown(f)]
    ELSE [threw |-> FALSE, file |-> saveData(data, t)]

\* extractPayload of the cookie version.
HasObject(v, k) == v.t = "object" /\ k \in DOMAIN v.o /\ v.o[k].t = "object"
extractPayload(reqBody) ==
    IF reqBody.t # "object" THEN <<>>
    ELSE IF HasObject(reqBody, "donnees")
    THEN IF HasObject(reqBody.o["donnees"], "donnees")
         THEN normalizeDonnees(reqBody.o["donnees"].o["donnees"])
         ELSE normalizeDonnees(reqBody.o["donnees"])
    ELSE normalizeDonnees(reqBody)

\* sanitizeValue, normalizeDonnees and extractDonneesFromBody of the bearer
\* version.
sanitizeValue(v) ==
    IF v.t = "null" THEN ""
    ELSE IF v.t = "number" THEN v.s
    ELSE IF v.t = "string" THEN Trim(v.s)
    ELSE IF v.t = "boolean" THEN (IF v.s = "true" THEN "1" ELSE "0")
    ELSE ""

B_normalizeDonnees(obj) ==
    IF obj.t # "object" THEN <<>>
    ELSE [k \in DOMAIN obj.o |-> sanitizeValue(obj.o[k])]

extractDonneesFromBody(reqBody) ==
    IF reqBody.t # "object" THEN <<>>
    ELSE IF HasObject(reqBody, "donnees") THEN B_normalizeDonnees(reqBody.o["donnees"])
    ELSE B_normalizeDonnees(reqBody)

\* requireKitchenAuth of the cookie version: the cookie alone.
C_requireKitchenAuth(f, req, t) ==
    LET data == loadData(f)
        token == req.cookie
    IN  IF token = NoToken THEN [ok |-> FALSE, nexts |-> 0, file |-> f, code |-> 401, error |-> "UNAUTHORIZED"]
        ELSE IF token \notin DOMAIN data.sessions
        THEN [ok |-> FALSE, nexts |-> 0, file |-> f, code |-> 401, error |-> "UNAUTHORIZED"]
        ELSE IF data.sessions[token].expiresAt <= t
        THEN [ok |-> FALSE, nexts |-> 0, file |-> f, code |-> 401, error |-> "UNAUTHORIZED"]
        ELSE IF disk # "ok" THEN [ok |-> FALSE, nexts |-> 0, file |-> Thrown(f), code |-> 500,
              error |-> "Internal Server Error"]
        ELSE [ok |-> TRUE, nexts |-> 1, code |-> 0, error |-> "",
              file |-> saveData([data EXCEPT !.sessions[token].expiresAt =
                                    t + SESSION_TTL_MS], t)]

\* getSession of the bearer version: a bearer token that names a live
\* session, else the cookie.
B_getSession(data, req, t) ==
    IF /\ req.bearer # NoToken
       /\ req.bearer \in DOMAIN data.sessions
       /\ data.sessions[req.bearer].expiresAt > t
    THEN [token |-> req.bearer, pinId |-> data.sessions[req.bearer].pinId,
          expiresAt |-> data.sessions[req.bearer].expiresAt]
    ELSE getSession(data, req.cookie, t)

refreshSession(data, token, t) ==
    IF token \in DOMAIN data.sessions
    THEN [data EXCEPT !.sessions[token].expiresAt = t + SESSION_TTL_MS]
    ELSE data

\* requireKitchenAuth of the bearer version.  nexts is how many times the
\* middleware calls next(): here `next(); return next();`.
B_requireKitchenAuth(f, req, t) ==
    LET data == loadData(f)
        sess == B_getSession(data, req, t)
    IN  IF sess = Null THEN [ok |-> FALSE, nexts |-> 0, file |-> f, code |-> 401, error |-> "UNAUTHORIZED"]
        ELSE IF disk # "ok" THEN [ok |-> FALSE, nexts |-> 0, file |-> Thrown(f), code |-> 500,
              error |-> "Internal Server Error"]
        ELSE [ok |-> TRUE, nexts |-> 2, code |-> 0, error |-> "",
              file |-> saveData(refreshSession(data, sess.token, t), t)]

\* The session middleware of the version that runs.
Auth(f, req, t) ==
    IF variant = "kitchen" THEN requireKitchenAuth(f, req.cookie, t)
    ELSE IF variant = "cookie" THEN C_requireKitchenAuth(f, req, t)
    ELSE B_requireKitchenAuth(f, req, t)

OrdersOf(data) ==
    [petitdej |-> data.petitdej, bar |-> data.bar, entretien |-> data.entretien]

-----------------------------------------------------------------------------
(* Handlers whose code is the same in the kitchen, cookie and bearer       *)
(* versions (lines of src/unnamed/part_001; part_000 repeats them).        *)

\* GET /api/commandes
F_GetAll ==
    /\ variant \in Family
    /\ Reply("getAll", 200, OrdersOf(loadData(file)))
    /\ UNCHANGED <<variant, env, disk, sessions, issued, now, file, pending, rand>>

\* GET /api/commandes/:service
F_GetOne(service) ==
    /\ variant \in Family
    /\ IF ~ensureService(service)
       THEN Reply("getOne", 400, [error |-> "Service inconnu"])
       ELSE Reply("getOne", 200, [record |-> loadData(file)[service]])
    /\ UNCHANGED <<variant, env, disk, sessions, issued, now, file, pending, rand>>

\* GET /api/pin/status
F_PinStatus ==
    /\ variant \in Family
    /\ Reply("pinStatus", 200,
             [pinsCount |-> Len(loadData(file).pins), maxPins |-> MAX_PINS,
              setupEnabled |-> SETUP_SECRET # ""])
    /\ UNCHANGED <<variant, env, disk, sessions, issued, now, file, pending, rand>>

\* A setup that would not compare the secret of the request.
F_SetupBeginNoSecret(setupSecret, pin) ==
    /\ variant \in Family
    /\ LET data == loadData(file)
           pinStr == Trim(pin)
       IN  IF SETUP_SECRET = ""
           THEN Reply("setup", 400, [error |-> "SETUP_SECRET_NOT_CONFIGURED"])
                /\ UNCHANGED <<pending, rand>>
           ELSE IF ~IsPin4(pinStr)
           THEN Reply("setup", 400, [error |-> "PIN_MUST_BE_4_DIGITS"])
                /\ UNCHANGED <<pending, rand>>
           ELSE IF Len(data.pins) >= MAX_PINS
           THEN Reply("setup", 400, [error |-> "MAX_PINS_REACHED"])
                /\ UNCHANGED <<pending, rand>>
           ELSE IF FirstMatch(data.pins, pinStr) # 0
           THEN Reply("setup", 400, [error |-> "PIN_ALREADY_EXISTS"])
                /\ UNCHANGED <<pending, rand>>
           ELSE /\ rand.pinIds < MaxPinIds
                /\ rand' = [rand EXCEPT !.pinIds = @ + 1]
                /\ pending' = pending \cup
                     {[op |-> "setup", data |-> data, pin |-> pinStr,
                       id |-> rand.pinIds + 1]}
                /\ UNCHANGED resp
    /\ UNCHANGED <<variant, env, disk, sessions, issued, now, file>>

\* POST /api/pin/setup up to its awaits: the checks, the load and the
\* comparison of the PIN with the stored hashes, whose outcome the loaded
\* document fixes.  The random pin id is drawn here: the draw does not depend
\* on the state.
F_SetupBegin(setupSecret, pin) ==
    /\ variant \in Family
    /\ LET data == loadData(file)
           pinStr == Trim(pin)
       IN  IF SETUP_SECRET = ""
           THEN Reply("setup", 400, [error |-> "SETUP_SECRET_NOT_CONFIGURED"])
                /\ UNCHANGED <<pending, rand>>
           ELSE IF setupSecret # SETUP_SECRET
           THEN Reply("setup", 401, [error |-> "BAD_SETUP_SECRET"])
                /\ UNCHANGED <<pending, rand>>
           ELSE IF ~IsPin4(pinStr)
           THEN Reply("setup", 400, [error |-> "PIN_MUST_BE_4_DIGITS"])
                /\ UNCHANGED <<pending, rand>>
           ELSE IF Len(data.pins) >= MAX_PINS
           THEN Reply("setup", 400, [error |-> "MAX_PINS_REACHED"])
                /\ UNCHANGED <<pending, rand>>
           ELSE IF FirstMatch(data.pins, pinStr) # 0
           THEN Reply("setup", 400, [error |-> "PIN_ALREADY_EXISTS"])
                /\ UNCHANGED <<pending, rand>>
           ELSE /\ rand.pinIds < MaxPinIds
                /\ rand' = [rand EXCEPT !.pinIds = @ + 1]
                /\ pending' = pending \cup
                     {[op |-> "setup", data |-> data, pin |-> pinStr,
                       id |-> rand.pinIds + 1]}
                /\ UNCHANGED resp
    /\ UNCHANGED <<variant, env, disk, sessions, issued, now, file>>

\* A setup that would add its pin to the document as it is on disk when
\* bcrypt.hash returns.
F_SetupEndOnDisk(h) ==
    /\ variant \in Family
    /\ h \in pending
    /\ h.op = "setup"
    /\ LET data == [loadData(file) EXCEPT !.pins =
                       Append(@, [id |-> h.id, hash |-> BcryptHash(h.pin),
                                  createdAt |-> now])]
       IN  Saved(saveData(data, now), "setup",
                 [success |-> TRUE, pinsCount |-> Len(data.pins)], "PIN_SETUP_SAVE_FAILED")
    /\ pending' = pending \ {h}
    /\ UNCHANGED <<variant, env, disk, sessions, issued, now, rand>>

\* POST /api/pin/setup after bcrypt.hash: the pin is added to the document
\* that was loaded before the awaits, and that document is saved.
F_SetupEnd(h) ==
    /\ variant \in Family
    /\ h \in pending
    /\ h.op = "setup"
    /\ LET data == [h.data EXCEPT !.pins =
                       Append(@, [id |-> h.id, hash |-> BcryptHash(h.pin),
                                  createdAt |-> now])]
       IN  Saved(saveData(data, now), "setup",
                 [success |-> TRUE, pinsCount |-> Len(data.pins)], "PIN_SETUP_SAVE_FAILED")
    /\ pending' = pending \ {h}
    /\ UNCHANGED <<variant, env, disk, sessions, issued, now, rand>>

\* POST /api/pin/login up to the end of its awaits.
F_LoginBegin(pin) ==
    /\ variant \in Family
    /\ LET data == loadData(file)
           pinStr == Trim(pin)
       IN  IF ~IsPin4(pinStr)
           THEN Reply("login", 400, [error |-> "PIN_MUST_BE_4_DIGITS"])
                /\ UNCHANGED <<pending, rand>>
           ELSE IF Len(data.pins) = 0
           THEN Reply("login", 400, [error |-> "NO_PIN_SET"])
                /\ UNCHANGED <<pending, rand>>
           ELSE IF FirstMatch(data.pins, pinStr) = 0
           THEN Reply("login", 401, [error |-> "BAD_PIN"])
                /\ UNCHANGED <<pending, rand>>
           ELSE /\ rand.tokens < MaxTokens
                /\ rand' = [rand EXCEPT !.tokens = @ + 1]
                /\ pending' = pending \cup
                     {[op |-> "login", data |-> data,
                       pinId |-> FirstMatch(data.pins, pinStr),
                       id |-> rand.tokens + 1]}
                /\ UNCHANGED resp
    /\ UNCHANGED <<variant, env, disk, sessions, issued, now, file>>

\* POST /api/pin/login from createSession on: the session is added to the
\* document loaded before the awaits, which is saved.  The token goes out in
\* the Set-Cookie header, and in the bearer version in the body as well
\* (part_000:518-525).
F_LoginEnd(h) ==
    /\ variant \in Family
    /\ h \in pending
    /\ h.op = "login"
    /\ Saved(saveData(createSession(h.data, h.pinId, h.id, now), now), "login",
             [success |-> TRUE, cookie |-> h.id,
              token |-> IF variant = "bearer" THEN h.id ELSE NoToken],
             "LOGIN_SAVE_FAILED")
    /\ pending' = pending \ {h}
    /\ UNCHANGED <<variant, env, disk, sessions, issued, now, rand>>

\* POST /api/validated/reset, behind requireKitchenAuth
F_ResetValidated(req) ==
    /\ variant \in Family
    /\ LET auth == Auth(file, req, now)
       IN  IF ~auth.ok
           THEN Answer(0, "resetValidated", auth.code, [error |-> auth.error])
                /\ file' = auth.file
           ELSE IF disk = "ok"
           THEN /\ file' = saveData([loadData(auth.file) EXCEPT !.validated = Null], now)
                /\ Answer(HandlerRuns(auth.nexts), "resetValidated", 200,
                          [success |-> TRUE])
           ELSE /\ file' = Thrown(auth.file)
                /\ Answer(HandlerRuns(auth.nexts), "resetValidated", 500,
                          [error |-> "RESET_VALIDATED_FAILED"])
    /\ UNCHANGED <<variant, env, disk, sessions, issued, now, pending, rand>>

-----------------------------------------------------------------------------
(* "kitchen": src/unnamed/part_001.                                        *)

\* An upsert that would write through a snapshot sharing its records with
\* the orders (what the handler does not do).
K_UpsertAliased(service, body) ==
    /\ variant = "kitchen"
    /\ ensureService(service)
    /\ LET rec == [donnees |-> normalizeDonnees(body), updatedAt |-> now]
           data == loadData(file)
       IN  Saved(saveData([data EXCEPT ![service] = rec,
                    !.validated = IF @ = Null THEN @ ELSE [@ EXCEPT ![service] = rec]],
                    now),
                 "upsert", [success |-> TRUE, service |-> service], "SAVE_FAILED")
    /\ UNCHANGED <<variant, env, disk, sessions, issued, now, pending, rand>>

\* POST /api/commandes/:service
K_Upsert(service, body) ==
    /\ variant = "kitchen"
    /\ IF ~ensureService(service)
       THEN Reply("upsert", 400, [error |-> "Service inconnu"]) /\ UNCHANGED file
       ELSE IF body.t # "object"
       THEN Reply("upsert", 400, [error |-> "Body JSON manquant"]) /\ UNCHANGED file
       ELSE LET payload == normalizeDonnees(body)
                data == [loadData(file) EXCEPT
                            ![service] = [donnees |-> payload, updatedAt |-> now]]
            IN  Saved(saveData(data, now), "upsert",
                      [success |-> TRUE, service |-> service], "SAVE_FAILED")
    /\ UNCHANGED <<variant, env, disk, sessions, issued, now, pending, rand>>

\* POST /api/reset/:service
K_ResetOne(service) ==
    /\ variant = "kitchen"
    /\ IF ~ensureService(service)
       THEN Reply("resetOne", 400, [error |-> "Service inconnu"]) /\ UNCHANGED file
       ELSE Saved(saveData([loadData(file) EXCEPT ![service] = Null], now),
                  "resetOne", [success |-> TRUE, service |-> service], "RESET_FAILED")
    /\ UNCHANGED <<variant, env, disk, sessions, issued, now, pending, rand>>

\* POST /api/reset-all
K_ResetAll ==
    /\ variant = "kitchen"
    /\ Saved(saveData([loadData(file) EXCEPT !.petitdej = Null, !.bar = Null,
                          !.entretien = Null, !.validated = Null], now),
             "resetAll", [success |-> TRUE], "RESET_ALL_FAILED")
    /\ UNCHANGED <<variant, env, disk, sessions, issued, now, pending, rand>>

\* POST /api/validate, behind requireKitchenAuth
K_Validate(req) ==
    /\ variant = "kitchen"
    /\ LET auth == requireKitchenAuth(file, req.cookie, now)
           data == loadData(auth.file)
       IN  IF ~auth.ok
           THEN Answer(0, "validate", auth.code, [error |-> auth.error]) /\ file' = auth.file
           ELSE IF disk = "ok"
           THEN /\ file' = saveData([data EXCEPT !.validated =
                                [petitdej |-> data.petitdej, bar |-> data.bar,
                                 entretien |-> data.entretien, validatedAt |-> now]], now)
                /\ Answer(HandlerRuns(auth.nexts), "validate", 200,
                          [success |-> TRUE, validatedAt |-> now])
           ELSE /\ file' = Thrown(auth.file)
                /\ Answer(HandlerRuns(auth.nexts), "validate", 500,
                          [error |-> "VALIDATE_FAILED"])
    /\ UNCHANGED <<variant, env, disk, sessions, issued, now, pending, rand>>

\* GET /api/validated
K_GetValidated ==
    /\ variant = "kitchen"
    /\ Reply("getValidated", 200, loadData(file).validated)
    /\ UNCHANGED <<variant, env, disk, sessions, issued, now, file, pending, rand>>

\* A logout that would save the document without deleting the session.
K_LogoutKeeps(req) ==
    /\ variant = "kitchen"
    /\ file' = IF disk = "ok" THEN saveData(loadData(file), now) ELSE Thrown(file)
    /\ Reply("logout", 200, [success |-> TRUE])
    /\ UNCHANGED <<variant, env, disk, sessions, issued, now, pending, rand>>

\* POST /api/pin/logout: a saveData that throws is logged and the handler
\* goes on to answer success.
K_Logout(req) ==
    /\ variant = "kitchen"
    /\ LET data == loadData(file)
           token == req.cookie
       IN  file' = IF disk # "ok" THEN Thrown(file)
                   ELSE saveData(
                      IF token # NoToken /\ token \in DOMAIN data.sessions
                      THEN [data EXCEPT !.sessions = Restrict(@, DOMAIN @ \ {token})]
                      ELSE data, now)
    /\ Reply("logout", 200, [success |-> TRUE])
    /\ UNCHANGED <<variant, env, disk, sessions, issued, now, pending, rand>>

\* GET /api/pin/me
K_Me(req) ==
    /\ variant = "kitchen"
    /\ Reply("me", 200,
             [authenticated |-> getSession(loadData(file), req.cookie, now) # Null])
    /\ UNCHANGED <<variant, env, disk, sessions, issued, now, file, pending, rand>>

-----------------------------------------------------------------------------
(* "cookie": src/unnamed/part_000, lines 990-1477.                         *)

\* POST /api/commandes/:service
C_UpsertPost(service, body) ==
    /\ variant = "cookie"
    /\ IF ~ensureService(service)
       THEN Reply("upsert", 400, [error |-> "Service inconnu"]) /\ UNCHANGED file
       ELSE LET payload == extractPayload(body)
                data == [loadData(file) EXCEPT
                            ![service] = [donnees |-> payload, updatedAt |-> now]]
                saved == C_saveData(file, data, now)
            IN  IF saved.threw
                THEN Reply("upsert", 500, [error |-> "SAVE_FAILED"])
                     /\ file' = saved.file
                ELSE /\ file' = saved.file
                     /\ Reply("upsert", 200, [success |-> TRUE, service |-> service])
    /\ UNCHANGED <<variant, env, disk, sessions, issued, now, pending, rand>>

\* PUT /api/commandes/:service, behind requireKitchenAuth
C_UpsertPut(req, service, body) ==
    /\ variant = "cookie"
    /\ LET auth == C_requireKitchenAuth(file, req, now)
       IN  IF ~auth.ok
           THEN Answer(0, "upsert", auth.code, [error |-> auth.error]) /\ file' = auth.file
           ELSE IF ~ensureService(service)
           THEN Answer(HandlerRuns(auth.nexts), "upsert", 400, [error |-> "Service inconnu"])
                /\ file' = auth.file
           ELSE LET payload == extractPayload(body)
                    data == [loadData(auth.file) EXCEPT
                                ![service] = [donnees |-> payload, updatedAt |-> now]]
                    saved == C_saveData(auth.file, data, now)
                IN  IF saved.threw
                    THEN Answer(HandlerRuns(auth.nexts), "upsert", 500, [error |-> "SAVE_FAILED"])
                         /\ file' = saved.file
                    ELSE /\ file' = saved.file
                         /\ Answer(HandlerRuns(auth.nexts), "upsert", 200, [success |-> TRUE, service |-> service])
    /\ UNCHANGED <<variant, env, disk, sessions, issued, now, pending, rand>>

\* POST /api/reset/:service and POST /api/commandes/:service/reset, behind
\* requireKitchenAuth
C_ResetOne(req, service) ==
    /\ variant = "cookie"
    /\ LET auth == C_requireKitchenAuth(file, req, now)
       IN  IF ~auth.ok
           THEN Answer(0, "resetOne", auth.code, [error |-> auth.error]) /\ file' = auth.file
           ELSE IF ~ensureService(service)
           THEN Answer(HandlerRuns(auth.nexts), "resetOne", 400, [error |-> "Service inconnu"])
                /\ file' = auth.file
           ELSE LET saved == C_saveData(auth.file,
                                    [loadData(auth.file) EXCEPT ![service] = Null], now)
                IN  IF saved.threw
                    THEN Answer(HandlerRuns(auth.nexts), "resetOne", 500, [error |-> "RESET_FAILED"])
                         /\ file' = saved.file
                    ELSE /\ file' = saved.file
                         /\ Answer(HandlerRuns(auth.nexts), "resetOne", 200, [success |-> TRUE, service |-> service])
    /\ UNCHANGED <<variant, env, disk, sessions, issued, now, pending, rand>>

\* POST /api/reset-all, behind requireKitchenAuth; saveData() is called
\* without its argument.
C_ResetAll(req) ==
    /\ variant = "cookie"
    /\ LET auth == C_requireKitchenAuth(file, req, now)
           data == [loadData(auth.file) EXCEPT !.petitdej = Null, !.bar = Null,
                       !.entretien = Null, !.validated = Null]
           saved == C_saveData(auth.file, Undefined, now)
       IN  IF ~auth.ok
           THEN Answer(0, "resetAll", auth.code, [error |-> auth.error]) /\ file' = auth.file
           ELSE IF saved.threw
           THEN Answer(HandlerRuns(auth.nexts), "resetAll", 500, [error |-> "RESET_ALL_FAILED"])
                /\ file' = saved.file
           ELSE /\ file' = saved.file
                /\ Answer(HandlerRuns(auth.nexts), "resetAll", 200, [success |-> TRUE])
    /\ UNCHANGED <<variant, env, disk, sessions, issued, now, pending, rand>>

\* POST /api/validate, behind requireKitchenAuth; saveData() is called
\* without its argument.
C_Validate(req) ==
    /\ variant = "cookie"
    /\ LET auth == C_requireKitchenAuth(file, req, now)
           loaded == loadData(auth.file)
           data == [loaded EXCEPT !.validated =
                       [validatedAt |-> now, commandes |-> OrdersOf(loaded)]]
           saved == C_saveData(auth.file, Undefined, now)
       IN  IF ~auth.ok
           THEN Answer(0, "validate", auth.code, [error |-> auth.error]) /\ file' = auth.file
           ELSE IF saved.threw
           THEN Answer(HandlerRuns(auth.nexts), "validate", 500, [error |-> "VALIDATE_FAILED"])
                /\ file' = saved.file
           ELSE /\ file' = saved.file
                /\ Answer(HandlerRuns(auth.nexts), "validate", 200, [success |-> TRUE, validatedAt |-> now])
    /\ UNCHANGED <<variant, env, disk, sessions, issued, now, pending, rand>>

\* The body GET /api/validated sends for a document.
C_ValidatedBody(data) ==
    IF data.validated = Null THEN [validatedAt |-> NoTime, commandes |-> <<>>]
    ELSE data.validated

\* GET /api/validated
C_GetValidated ==
    /\ variant = "cookie"
    /\ Reply("getValidated", 200, C_ValidatedBody(loadData(file)))
    /\ UNCHANGED <<variant, env, disk, sessions, issued, now, file, pending, rand>>

\* getTokenFromReq
getTokenFromReq(req) == req.cookie

\* POST /api/pin/logout: a failed save is logged and the answer is the same.
C_Logout(req) ==
    /\ variant = "cookie"
    /\ LET data == loadData(file)
           token == getTokenFromReq(req)
           saved == C_saveData(file,
              IF token # NoToken /\ token \in DOMAIN data.sessions
              THEN [data EXCEPT !.sessions = Restrict(@, DOMAIN @ \ {token})]
              ELSE data, now)
       IN  file' = saved.file
    /\ Reply("logout", 200, [success |-> TRUE])
    /\ UNCHANGED <<variant, env, disk, sessions, issued, now, pending, rand>>

\* GET /api/pin/me: the handler calls getSession, which this version does
\* not define; the ReferenceError reaches the error handler.
C_Me(req) ==
    /\ variant = "cookie"
    /\ Reply("me", 500, [error |-> "Internal Server Error"])
    /\ UNCHANGED <<variant, env, disk, sessions, issued, now, file, pending, rand>>

-----------------------------------------------------------------------------
(* "bearer": src/unnamed/part_000, lines 95-569.                           *)

\* POST and PUT /api/commandes/:service
B_Upsert(service, body) ==
    /\ variant = "bearer"
    /\ IF ~ensureService(service)
       THEN Reply("upsert", 400, [error |-> "Service inconnu"]) /\ UNCHANGED file
       ELSE LET donnees == extractDonneesFromBody(body)
                data == [loadData(file) EXCEPT
                            ![service] = [donnees |-> donnees, updatedAt |-> now]]
            IN  Saved(saveData(data, now), "upsert",
                      [success |-> TRUE, service |-> service], "SAVE_FAILED")
    /\ UNCHANGED <<variant, env, disk, sessions, issued, now, pending, rand>>

\* POST /api/reset/:service
B_ResetOne(service) ==
    /\ variant = "bearer"
    /\ IF ~ensureService(service)
       THEN Reply("resetOne", 400, [error |-> "Service inconnu"]) /\ UNCHANGED file
       ELSE Saved(saveData([loadData(file) EXCEPT ![service] = Null], now),
                  "resetOne", [success |-> TRUE, service |-> service], "RESET_FAILED")
    /\ UNCHANGED <<variant, env, disk, sessions, issued, now, pending, rand>>

\* POST /api/reset-all
B_ResetAll ==
    /\ variant = "bearer"
    /\ Saved(saveData([loadData(file) EXCEPT !.petitdej = Null, !.bar = Null,
                          !.entretien = Null, !.validated = Null], now),
             "resetAll", [success |-> TRUE], "RESET_ALL_FAILED")
    /\ UNCHANGED <<variant, env, disk, sessions, issued, now, pending, rand>>

\* POST /api/validate, behind requireKitchenAuth
B_Validate(req) ==
    /\ variant = "bearer"
    /\ LET auth == B_requireKitchenAuth(file, req, now)
           data == loadData(auth.file)
       IN  IF ~auth.ok
           THEN Answer(0, "validate", auth.code, [error |-> auth.error]) /\ file' = auth.file
           ELSE IF disk = "ok"
           THEN /\ file' = saveData([data EXCEPT !.validated =
                                [commandes |-> OrdersOf(data), validatedAt |-> now]], now)
                /\ Answer(HandlerRuns(auth.nexts), "validate", 200,
                          [success |-> TRUE, validatedAt |-> now])
           ELSE /\ file' = Thrown(auth.file)
                /\ Answer(HandlerRuns(auth.nexts), "validate", 500,
                          [error |-> "VALIDATE_FAILED"])
    /\ UNCHANGED <<variant, env, disk, sessions, issued, now, pending, rand>>

\* GET /api/validated
B_GetValidated ==
    /\ variant = "bearer"
    /\ Reply("getValidated", 200, loadData(file).validated)
    /\ UNCHANGED <<variant, env, disk, sessions, issued, now, file, pending, rand>>

\* POST /api/pin/logout: the bearer token if there is one, else the cookie.
B_Logout(req) ==
    /\ variant = "bearer"
    /\ LET data == loadData(file)
           token == IF req.bearer # NoToken THEN req.bearer ELSE req.cookie
       IN  file' = IF disk # "ok" THEN Thrown(file) ELSE saveData(
              IF token # NoToken /\ token \in DOMAIN data.sessions
              THEN [data EXCEPT !.sessions = Restrict(@, DOMAIN @ \ {token})]
              ELSE data, now)
    /\ Reply("logout", 200, [success |-> TRUE])
    /\ UNCHANGED <<variant, env, disk, sessions, issued, now, pending, rand>>

\* GET /api/pin/me
B_Me(req) ==
    /\ variant = "bearer"
    /\ Reply("me", 200,
             [authenticated |-> B_getSession(loadData(file), req, now) # Null])
    /\ UNCHANGED <<variant, env, disk, sessions, issued, now, file, pending, rand>>

-----------------------------------------------------------------------------
(* "scoped": src/unnamed/part_000, lines 571-988.  The sessions are a Map  *)
(* in memory, the document holds one PIN per scope, and every handler is   *)
(* synchronous.                                                            *)

MASTER_PIN == "9999"
PinScopes == <<"petitdej", "bar", "entretien", "recap">>

S_defaultData ==
    [petitdej |-> Null, bar |-> Null, entretien |-> Null,
     validated |-> Null, pins |-> <<>>]

S_loadData(f) ==
    IF f = Missing THEN S_defaultData
    ELSE [petitdej |-> f.petitdej, bar |-> f.bar, entretien |-> f.entretien,
          validated |-> f.validated, pins |-> f.pins]

S_saveData(data) == data

\* sanitizeDonnees: null values are skipped, the others are String(v).trim().
sanitizeDonnees(obj) ==
    IF obj.t # "object" THEN <<>>
    ELSE [k \in {x \in DOMAIN obj.o : obj.o[x].t # "null"} |->
            IF obj.o[k].t = "object" THEN "[object Object]" ELSE Trim(obj.o[k].s)]

hashPin(pin) == [alg |-> "sha256", of |-> pin]

\* /^\d{4}$/ of the scoped version, whose master PIN is four digits too.
S_IsPin4(p) == IsPin4(p) \/ p = "9999"

\* getBearerToken(req) || getCookieToken(req)
S_Token(req) == IF req.bearer # NoToken THEN req.bearer ELSE req.cookie

\* authMiddleware: code is 0 when next() is called, user is req.user, and
\* sessions is the Map afterwards (an expired session is deleted, a live one
\* slides).
authMiddleware(req, t) ==
    LET token == S_Token(req)
    IN  IF token = NoToken
        THEN [code |-> 401, error |-> "UNAUTHORIZED", user |-> Null, sessions |-> sessions]
        ELSE IF token \notin DOMAIN sessions
        THEN [code |-> 401, error |-> "UNAUTHORIZED", user |-> Null, sessions |-> sessions]
        ELSE IF sessions[token].expiresAt <= t
        THEN [code |-> 401, error |-> "SESSION_EXPIRED", user |-> Null,
              sessions |-> Restrict(sessions, DOMAIN sessions \ {token})]
        ELSE [code |-> 0, error |-> "",
              user |-> [scope |-> sessions[token].scope, token |-> token],
              sessions |-> [sessions EXCEPT ![token].expiresAt = t + SESSION_TTL_MS]]

\* A requireScope that would not let the admin scope through by itself.
requireScopeNoAdmin(user, allowed) ==
    IF user = Null THEN 401
    ELSE IF user.scope \notin allowed THEN 403
    ELSE 0

\* requireScope(...allowed): the status it answers, 0 when it calls next().
requireScope(user, allowed) ==
    IF user = Null THEN 401
    ELSE IF user.scope = "admin" THEN 0
    ELSE IF user.scope \notin allowed THEN 403
    ELSE 0

\* A loop that would keep the last scope whose hash matches.
S_MatchLast(pins, pin, i) ==
    LET hits == {j \in i..Len(PinScopes) :
                    /\ PinScopes[j] \in DOMAIN pins
                    /\ pins[PinScopes[j]].hash = hashPin(pin)}
    IN  IF hits = {} THEN ""
        ELSE PinScopes[CHOOSE j \in hits : \A k \in hits : j >= k]

\* The scope the login loop finds for a PIN ("" when none matches).
S_MatchFrom(pins, pin, i) ==
    LET hits == {j \in i..Len(PinScopes) :
                    /\ PinScopes[j] \in DOMAIN pins
                    /\ pins[PinScopes[j]].hash = hashPin(pin)}
    IN  IF hits = {} THEN ""
        ELSE PinScopes[CHOOSE j \in hits : \A k \in hits : j <= k]

\* The body of a successful login: res.json({ ok: true, token, scope }).
S_LoginBody(token, scope) == [ok |-> TRUE, token |-> token, scope |-> scope]

\* POST /api/auth/login
S_Login(pin) ==
    /\ variant = "scoped"
    /\ LET data == S_loadData(file)
           pinStr == Trim(pin)
           scope == IF pinStr = MASTER_PIN THEN "admin"
                    ELSE S_MatchFrom(data.pins, pinStr, 1)
           token == rand.tokens + 1
       IN  IF ~S_IsPin4(pinStr)
           THEN Reply("login", 400, [error |-> "PIN_INVALID"])
                /\ UNCHANGED <<sessions, rand>>
           ELSE IF scope = ""
           THEN Reply("login", 401, [error |-> "BAD_PIN"])
                /\ UNCHANGED <<sessions, rand>>
           ELSE /\ rand.tokens < MaxTokens
                /\ rand' = [rand EXCEPT !.tokens = @ + 1]
                /\ sessions' = [k \in DOMAIN sessions \cup {token} |->
                                  IF k = token
                                  THEN [scope |-> scope, expiresAt |-> now + SESSION_TTL_MS]
                                  ELSE sessions[k]]
                /\ Reply("login", 200, S_LoginBody(token, scope))
    /\ UNCHANGED <<variant, env, disk, issued, now, file, pending>>

\* GET /api/auth/me
S_Me(req) ==
    /\ variant = "scoped"
    /\ LET auth == authMiddleware(req, now)
       IN  /\ sessions' = auth.sessions
           /\ IF auth.code # 0
              THEN Answer(0, "me", auth.code, [error |-> auth.error])
              ELSE Reply("me", 200, [authenticated |-> TRUE, scope |-> auth.user.scope])
    /\ UNCHANGED <<variant, env, disk, issued, now, file, pending, rand>>

\* POST /api/auth/logout
S_Logout(req) ==
    /\ variant = "scoped"
    /\ LET auth == authMiddleware(req, now)
       IN  IF auth.code # 0
           THEN /\ sessions' = auth.sessions
                /\ Answer(0, "logout", auth.code, [error |-> auth.error])
           ELSE /\ sessions' = Restrict(auth.sessions,
                                        DOMAIN auth.sessions \ {auth.user.token})
                /\ Reply("logout", 200, [ok |-> TRUE])
    /\ UNCHANGED <<variant, env, disk, issued, now, file, pending, rand>>

\* GET /api/admin/pins
S_GetPins(req) ==
    /\ variant = "scoped"
    /\ LET auth == authMiddleware(req, now)
           scoped == requireScope(auth.user, {"admin"})
       IN  /\ sessions' = auth.sessions
           /\ IF auth.code # 0
              THEN Answer(0, "getPins", auth.code, [error |-> auth.error])
              ELSE IF scoped # 0
              THEN Answer(0, "getPins", scoped, [error |-> "FORBIDDEN"])
              ELSE Reply("getPins", 200,
                         [ok |-> TRUE, pins |-> DOMAIN S_loadData(file).pins])
    /\ UNCHANGED <<variant, env, disk, issued, now, file, pending, rand>>

\* POST /api/admin/pins
S_SetPin(req, scope, pin) ==
    /\ variant = "scoped"
    /\ LET auth == authMiddleware(req, now)
           scoped == requireScope(auth.user, {"admin"})
           data == S_loadData(file)
       IN  /\ sessions' = auth.sessions
           /\ IF auth.code # 0
              THEN Answer(0, "setPin", auth.code, [error |-> auth.error]) /\ UNCHANGED file
              ELSE IF scoped # 0
              THEN Answer(0, "setPin", scoped, [error |-> "FORBIDDEN"]) /\ UNCHANGED file
              ELSE IF scope \notin {"petitdej", "bar", "entretien", "recap"}
              THEN Reply("setPin", 400, [error |-> "SCOPE_INVALID"]) /\ UNCHANGED file
              ELSE IF ~S_IsPin4(Trim(pin))
              THEN Reply("setPin", 400, [error |-> "PIN_INVALID"]) /\ UNCHANGED file
              ELSE Saved(S_saveData([data EXCEPT !.pins =
                            [k \in DOMAIN @ \cup {scope} |->
                                IF k = scope
                                THEN [hash |-> hashPin(Trim(pin)), updatedAt |-> now]
                                ELSE @[k]]]),
                         "setPin", [ok |-> TRUE, scope |-> scope],
                         "Internal Server Error")
    /\ UNCHANGED <<variant, env, disk, issued, now, pending, rand>>

\* setCommande
setCommande(f, service, body, t) ==
    S_saveData([S_loadData(f) EXCEPT
                   ![service] = [donnees |-> sanitizeDonnees(body), updatedAt |-> t]])

\* GET /api/commandes/<service>, one route per service; another path under
\* /api/commandes reaches the 404 handler.
S_GetOne(req, service) ==
    /\ variant = "scoped"
    /\ LET auth == authMiddleware(req, now)
           scoped == requireScope(auth.user, {service, "recap"})
       IN  IF ~ensureService(service)
           THEN Reply("getOne", 404, [error |-> "API_NOT_FOUND"]) /\ UNCHANGED sessions
           ELSE /\ sessions' = auth.sessions
                /\ IF auth.code # 0
                   THEN Answer(0, "getOne", auth.code, [error |-> auth.error])
                   ELSE IF scoped # 0
                   THEN Answer(0, "getOne", scoped, [error |-> "FORBIDDEN"])
                   ELSE Reply("getOne", 200, [record |-> S_loadData(file)[service]])
    /\ UNCHANGED <<variant, env, disk, issued, now, file, pending, rand>>

\* POST /api/commandes/<service>: the route of the service when there is
\* one, else POST /api/commandes/:service, which answers 400.
S_Upsert(req, service, body) ==
    /\ variant = "scoped"
    /\ LET auth == authMiddleware(req, now)
           scoped == requireScope(auth.user, {service, "recap"})
       IN  /\ sessions' = auth.sessions
           /\ IF auth.code # 0
              THEN Answer(0, "upsert", auth.code, [error |-> auth.error]) /\ UNCHANGED file
              ELSE IF ~ensureService(service)
              THEN Reply("upsert", 400, [error |-> "Service inconnu"]) /\ UNCHANGED file
              ELSE IF scoped # 0
              THEN Answer(0, "upsert", scoped, [error |-> "FORBIDDEN"]) /\ UNCHANGED file
              ELSE Saved(setCommande(file, service, body, now), "upsert",
                         [success |-> TRUE, service |-> service], "SAVE_FAILED")
    /\ UNCHANGED <<variant, env, disk, issued, now, pending, rand>>

\* GET /api/commandes and GET /api/commandes/recap
S_GetAll(req) ==
    /\ variant = "scoped"
    /\ LET auth == authMiddleware(req, now)
           scoped == requireScope(auth.user, {"recap"})
       IN  /\ sessions' = auth.sessions
           /\ IF auth.code # 0
              THEN Answer(0, "getAll", auth.code, [error |-> auth.error])
              ELSE IF scoped # 0
              THEN Answer(0, "getAll", scoped, [error |-> "FORBIDDEN"])
              ELSE Reply("getAll", 200, OrdersOf(S_loadData(file)))
    /\ UNCHANGED <<variant, env, disk, issued, now, file, pending, rand>>

\* The snapshot after POST /api/validate/:service: the part of the service
\* is replaced, the parts of the other services stay.
S_Validated(data, service, t) ==
    LET old == IF data.validated = Null THEN <<>> ELSE data.validated
    IN  [k \in DOMAIN old \cup {service} |->
            IF k = service THEN [validatedAt |-> t, payload |-> data[service]]
            ELSE old[k]]

\* POST /api/validate/:service
S_Validate(req, service) ==
    /\ variant = "scoped"
    /\ LET auth == authMiddleware(req, now)
           data == S_loadData(file)
       IN  /\ sessions' = auth.sessions
           /\ IF auth.code # 0
              THEN Answer(0, "validate", auth.code, [error |-> auth.error]) /\ UNCHANGED file
              ELSE IF ~ensureService(service)
              THEN Reply("validate", 400, [error |-> "Service inconnu"]) /\ UNCHANGED file
              ELSE IF auth.user.scope \notin {"admin", "recap", service}
              THEN Reply("validate", 403, [error |-> "FORBIDDEN"]) /\ UNCHANGED file
              ELSE Saved(S_saveData([data EXCEPT !.validated =
                                             S_Validated(data, service, now)]),
                         "validate", [success |-> TRUE, service |-> service],
                         "VALIDATE_FAILED")
    /\ UNCHANGED <<variant, env, disk, issued, now, pending, rand>>

-----------------------------------------------------------------------------
(* "jwt": src/server.js.  Three files (file.commandes, file.validated,     *)
(* file.pins), an owner and a chef PIN, and signed tokens that expire      *)
(* twelve hours after they are issued.                                     *)

JWT_EXPIRES_IN == 3
Roles == {"owner", "chef"}
EmptyCommande == [donnees |-> [donnees |-> <<>>], updatedAt |-> NoTime]

\* A request without an Authorization header.
\* readJsonSafe(file, fallback): the parsed content, or the fallback when
\* the file is missing, empty or not JSON.
readJsonSafe(f, fallback) == IF f = Missing THEN fallback ELSE f

NoJwt == [role |-> "", exp |-> 0]

\* The files ensureFiles writes at start-up.
ensureFiles ==
    [commandes |-> [s \in SERVICES |-> EmptyCommande],
     validated |-> [validatedAt |-> NoTime, commandes |-> Null],
     pins |-> [owner |-> Null, chef |-> Null]]

\* requireAuth(roles): the status it answers, 0 when it calls next().  A
\* token verifies when jwt.sign made it and its exp is still ahead.
requireAuth(roles, token, t) ==
    IF token = NoJwt THEN 401
    ELSE IF token \notin issued THEN 401
    ELSE IF t >= token.exp THEN 401
    ELSE IF token.role \notin roles THEN 403
    ELSE 0

\* GET /api/pin/status
J_PinStatus ==
    /\ variant = "jwt"
    /\ Reply("pinStatus", 200,
             [ownerExists |-> file.pins.owner # Null,
              chefExists |-> file.pins.chef # Null,
              setupLocked |-> file.pins.owner # Null /\ file.pins.chef # Null])
    /\ UNCHANGED <<variant, env, disk, sessions, issued, now, file, pending, rand>>

\* POST /api/pin/setup up to its await.
J_SetupBegin(setupSecret, role, pin) ==
    /\ variant = "jwt"
    /\ LET pins == file.pins
       IN  IF SETUP_SECRET = "" \/ setupSecret # SETUP_SECRET
           THEN Reply("setup", 401, [error |-> "Setup secret invalide"])
                /\ UNCHANGED pending
           ELSE IF role \notin {"owner", "chef"}
           THEN Reply("setup", 400, [error |-> "Role invalide"])
                /\ UNCHANGED pending
           ELSE IF ~IsPin4(pin)
           THEN Reply("setup", 400, [error |-> "PIN invalide (4 chiffres)"])
                /\ UNCHANGED pending
           ELSE IF pins.owner # Null /\ pins.chef # Null
           THEN Reply("setup", 403, [error |-> "Setup verrouille (2 PIN deja crees)"])
                /\ UNCHANGED pending
           ELSE IF pins[role] # Null
           THEN Reply("setup", 409, [error |-> "Ce role a deja un PIN"])
                /\ UNCHANGED pending
           ELSE /\ pending' = pending \cup
                     {[op |-> "setup", pins |-> pins, role |-> role, pin |-> pin]}
                /\ UNCHANGED resp
    /\ UNCHANGED <<variant, env, disk, sessions, issued, now, file, rand>>

\* POST /api/pin/setup after bcrypt.hash: the pins loaded before the await
\* get the role's PIN and are saved.
J_SetupEnd(h) ==
    /\ variant = "jwt"
    /\ h \in pending
    /\ h.op = "setup"
    /\ IF disk # "ok" THEN UNCHANGED file /\ Rejected("setup")
       ELSE /\ file' = [file EXCEPT !.pins =
                  [h.pins EXCEPT ![h.role] =
                      [hash |-> BcryptHash(h.pin), createdAt |-> now, resetAt |-> NoTime]]]
            /\ Reply("setup", 200, [ok |-> TRUE])
    /\ pending' = pending \ {h}
    /\ UNCHANGED <<variant, env, disk, sessions, issued, now, rand>>

\* A login that would try the chef PIN first.
roleMatchedChefFirst(pins, pin) ==
    IF pins.chef # Null /\ BcryptCompare(pin, pins.chef.hash) THEN "chef"
    ELSE IF pins.owner # Null /\ BcryptCompare(pin, pins.owner.hash) THEN "owner"
    ELSE ""

\* The role the login finds for a PIN in the pins it loaded: owner first.
roleMatched(pins, pin) ==
    IF pins.owner # Null /\ BcryptCompare(pin, pins.owner.hash) THEN "owner"
    ELSE IF pins.chef # Null /\ BcryptCompare(pin, pins.chef.hash) THEN "chef"
    ELSE ""

\* POST /api/pin/login up to the end of its awaits.
J_LoginBegin(pin) ==
    /\ variant = "jwt"
    /\ IF ~IsPin4(pin)
       THEN Reply("login", 400, [error |-> "PIN invalide (4 chiffres)"])
            /\ UNCHANGED pending
       ELSE IF roleMatched(file.pins, pin) = ""
       THEN /\ IF disk = "ok" THEN Reply("login", 401, [error |-> "PIN incorrect"])
               ELSE Rejected("login")
            /\ UNCHANGED pending
       ELSE /\ pending' = pending \cup
                 {[op |-> "login", role |-> roleMatched(file.pins, pin)]}
            /\ UNCHANGED resp
    /\ UNCHANGED <<variant, env, disk, sessions, issued, now, file, rand>>

\* jwt.sign({ role }, JWT_SECRET, { expiresIn }): the payload of a token
\* is signed, not encrypted, and whoever holds the token reads it.
jwtSign(role, t) == [role |-> role, exp |-> t + JWT_EXPIRES_IN]

\* The body of a successful login: res.json({ ok: true, token }).
J_LoginBody(token) == [ok |-> TRUE, token |-> token]

\* POST /api/pin/login from jwt.sign on.
J_LoginEnd(h) ==
    /\ variant = "jwt"
    /\ h \in pending
    /\ h.op = "login"
    /\ LET token == jwtSign(h.role, now)
       IN  IF disk # "ok" THEN UNCHANGED issued /\ Rejected("login")
           ELSE /\ Cardinality(issued \cup {token}) <= MaxTokens
                /\ issued' = issued \cup {token}
                /\ Reply("login", 200, J_LoginBody(token))
    /\ pending' = pending \ {h}
    /\ UNCHANGED <<variant, env, disk, sessions, now, file, rand>>

\* POST /api/pin/reset-chef up to its await.
J_ResetChefBegin(token, newPin) ==
    /\ variant = "jwt"
    /\ LET auth == requireAuth({"owner"}, token, now)
       IN  IF auth # 0
           THEN Answer(0, "resetChef", auth, [error |-> "auth"]) /\ UNCHANGED pending
           ELSE IF ~IsPin4(newPin)
           THEN Reply("resetChef", 400, [error |-> "PIN invalide (4 chiffres)"])
                /\ UNCHANGED pending
           ELSE IF file.pins.chef = Null
           THEN Reply("resetChef", 404, [error |-> "PIN chef non cree"])
                /\ UNCHANGED pending
           ELSE /\ pending' = pending \cup
                     {[op |-> "resetChef", pins |-> file.pins, pin |-> newPin]}
                /\ UNCHANGED resp
    /\ UNCHANGED <<variant, env, disk, sessions, issued, now, file, rand>>

\* A reset that would revoke the tokens of the chef.
J_ResetChefEndRevoking(h) ==
    /\ variant = "jwt"
    /\ h \in pending
    /\ h.op = "resetChef"
    /\ IF disk # "ok" THEN UNCHANGED <<file, issued>> /\ Rejected("resetChef")
       ELSE /\ file' = [file EXCEPT !.pins =
                  [h.pins EXCEPT !.chef.hash = BcryptHash(h.pin), !.chef.resetAt = now]]
            /\ issued' = {token \in issued : token.role # "chef"}
            /\ Reply("resetChef", 200, [ok |-> TRUE])
    /\ pending' = pending \ {h}
    /\ UNCHANGED <<variant, env, disk, sessions, now, rand>>

\* POST /api/pin/reset-chef after bcrypt.hash.
J_ResetChefEnd(h) ==
    /\ variant = "jwt"
    /\ h \in pending
    /\ h.op = "resetChef"
    /\ IF disk # "ok" THEN UNCHANGED file /\ Rejected("resetChef")
       ELSE /\ file' = [file EXCEPT !.pins =
                  [h.pins EXCEPT !.chef.hash = BcryptHash(h.pin), !.chef.resetAt = now]]
            /\ Reply("resetChef", 200, [ok |-> TRUE])
    /\ pending' = pending \ {h}
    /\ UNCHANGED <<variant, env, disk, sessions, issued, now, rand>>

\* A JavaScript value used as a condition.
Truthy(v) ==
    \/ v.t = "object"
    \/ v.t = "string" /\ v.s # ""
    \/ v.t = "number" /\ v.s # "0"
    \/ v.t = "boolean" /\ v.s = "true"

\* v?.[k], undefined being null here.
Member(v, k) ==
    IF v.t = "object" /\ k \in DOMAIN v.o THEN v.o[k]
    ELSE [t |-> "null", s |-> "", o |-> <<>>]

\* payload?.donnees?.donnees || payload?.donnees || {}
Incoming(payload) ==
    LET d == Member(payload, "donnees")
        dd == Member(d, "donnees")
    IN  IF Truthy(dd) THEN dd ELSE IF Truthy(d) THEN d ELSE JObj(<<>>)

\* data[service] after the merge of PUT /api/commandes/:service.  The
\* stored values are the JSON values of the request, unconverted; the
\* spread { ...v } copies the members of an object and nothing of a number
\* or a boolean.
Merged(commandes, service, payload, t) ==
    LET existing == IF service \in DOMAIN commandes
                    THEN commandes[service].donnees.donnees ELSE <<>>
        v == Incoming(payload)
        incoming == IF v.t = "object" THEN v.o ELSE <<>>
    IN  [donnees |-> [donnees |->
            [k \in DOMAIN existing \cup DOMAIN incoming |->
                IF k \in DOMAIN incoming THEN incoming[k] ELSE existing[k]]],
         updatedAt |-> t]

\* commandes with data[service] set to rec, the key being created if need be.
J_Set(commandes, service, rec) ==
    [k \in DOMAIN commandes \cup {service} |->
        IF k = service THEN rec ELSE commandes[k]]

\* GET /api/commandes
J_GetAll ==
    /\ variant = "jwt"
    /\ Reply("getAll", 200, readJsonSafe(file.commandes, <<>>))
    /\ UNCHANGED <<variant, env, disk, sessions, issued, now, file, pending, rand>>

\* GET /api/commandes/:service
J_GetOne(service) ==
    /\ variant = "jwt"
    /\ Reply("getOne", 200,
             [record |-> IF service \in DOMAIN readJsonSafe(file.commandes, <<>>)
                         THEN file.commandes[service] ELSE EmptyCommande])
    /\ UNCHANGED <<variant, env, disk, sessions, issued, now, file, pending, rand>>

\* PUT /api/commandes/:service
J_Put(service, body) ==
    /\ variant = "jwt"
    /\ Saved([file EXCEPT !.commandes =
                  J_Set(readJsonSafe(@, <<>>), service,
                        Merged(readJsonSafe(@, <<>>), service, body, now))],
             "upsert", [ok |-> TRUE, updatedAt |-> now], "Internal Server Error")
    /\ UNCHANGED <<variant, env, disk, sessions, issued, now, pending, rand>>

\* PUT /api/admin/commandes/:service
J_AdminPut(token, service, body) ==
    /\ variant = "jwt"
    /\ LET auth == requireAuth({"owner", "chef"}, token, now)
       IN  IF auth # 0
           THEN Answer(0, "upsert", auth, [error |-> "auth"]) /\ UNCHANGED file
           ELSE Saved([file EXCEPT !.commandes =
                              J_Set(readJsonSafe(@, <<>>), service,
                        Merged(readJsonSafe(@, <<>>), service, body, now))],
                      "upsert", [ok |-> TRUE, updatedAt |-> now],
                      "Internal Server Error")
    /\ UNCHANGED <<variant, env, disk, sessions, issued, now, pending, rand>>

\* POST /api/reset/:service
J_Reset(token, service) ==
    /\ variant = "jwt"
    /\ LET auth == requireAuth({"owner", "chef"}, token, now)
       IN  IF auth # 0
           THEN Answer(0, "resetOne", auth, [error |-> "auth"]) /\ UNCHANGED file
           ELSE Saved([file EXCEPT !.commandes =
                              J_Set(readJsonSafe(@, <<>>), service,
                                    [donnees |-> [donnees |-> <<>>], updatedAt |-> now])],
                      "resetOne", [ok |-> TRUE, service |-> service],
                      "Internal Server Error")
    /\ UNCHANGED <<variant, env, disk, sessions, issued, now, pending, rand>>

\* POST /api/validate
J_Validate(token) ==
    /\ variant = "jwt"
    /\ LET auth == requireAuth({"owner", "chef"}, token, now)
       IN  IF auth # 0
           THEN Answer(0, "validate", auth, [error |-> "auth"]) /\ UNCHANGED file
           ELSE IF disk # "ok"
           THEN Reply("validate", 500, [error |-> "Internal Server Error"])
                /\ UNCHANGED file
           ELSE /\ file' = [file EXCEPT !.validated =
                              [validatedAt |-> now,
                               commandes |-> readJsonSafe(file.commandes, <<>>)]]
                /\ Reply("validate", 200, [ok |-> TRUE, validatedAt |-> now])
    /\ UNCHANGED <<variant, env, disk, sessions, issued, now, pending, rand>>

\* GET /api/validated
J_GetValidated ==
    /\ variant = "jwt"
    /\ Reply("getValidated", 200, file.validated)
    /\ UNCHANGED <<variant, env, disk, sessions, issued, now, file, pending, rand>>

-----------------------------------------------------------------------------
(* "plain": src/unnamed/part_002.  The orders alone: no PIN, no session,    *)
(* no snapshot.  The body of a request is stored as it came.               *)

P_Empty == [donnees |-> JObj(<<>>), updatedAt |-> NoTime]

\* loadData: the three departments of the document, each defaulted.
P_loadData(f) ==
    IF f = Missing THEN [s \in SERVICES |-> P_Empty]
    ELSE [s \in SERVICES |-> f[s]]

\* GET /api/commandes
P_GetAll ==
    /\ variant = "plain"
    /\ Reply("getAll", 200, P_loadData(file))
    /\ UNCHANGED <<variant, env, disk, sessions, issued, now, file, pending, rand>>

\* GET /api/commandes/:service
P_GetOne(service) ==
    /\ variant = "plain"
    /\ IF service \notin {"petitdej", "bar", "entretien"}
       THEN Reply("getOne", 400, [error |-> "Service inconnu"])
       ELSE Reply("getOne", 200, [record |-> P_loadData(file)[service]])
    /\ UNCHANGED <<variant, env, disk, sessions, issued, now, file, pending, rand>>

\* POST /api/commandes/:service
P_Upsert(service, body) ==
    /\ variant = "plain"
    /\ IF service \notin {"petitdej", "bar", "entretien"}
       THEN Reply("upsert", 400, [error |-> "Service inconnu"]) /\ UNCHANGED file
       ELSE Saved([P_loadData(file) EXCEPT
                           ![service] = [donnees |-> body, updatedAt |-> now]],
                  "upsert", [message |-> "enregistree"], "Internal Server Error")
    /\ UNCHANGED <<variant, env, disk, sessions, issued, now, pending, rand>>

\* POST /api/reset/:service
P_Reset(service) ==
    /\ variant = "plain"
    /\ IF service \notin {"petitdej", "bar", "entretien"}
       THEN Reply("resetOne", 400, [error |-> "Service inconnu"]) /\ UNCHANGED file
       ELSE Saved([P_loadData(file) EXCEPT ![service] = P_Empty],
                  "resetOne", [message |-> "reinitialise"], "Internal Server Error")
    /\ UNCHANGED <<variant, env, disk, sessions, issued, now, pending, rand>>

-----------------------------------------------------------------------------
(* The clock, and the state when the server has started.                   *)

Tick ==
    /\ now < MaxTime
    /\ now' = now + 1
    /\ UNCHANGED <<variant, env, disk, file, pending, rand, sessions, issued, resp>>

\* What happens to the store outside the server: fs.writeFileSync starts or
\* stops throwing (the directory is read-only, the disk is full), or the
\* store file is lost (deleted, emptied or no longer JSON); of the files of
\* server.js the one that is lost is the file of the orders.
Fault ==
    /\ \/ /\ \E d \in {"ok", "refused", "full"} \ {disk} : disk' = d
          /\ UNCHANGED file
       \/ /\ file' = IF variant = "jwt" THEN [file EXCEPT !.commandes = Missing]
                     ELSE Missing
          /\ UNCHANGED disk
    /\ UNCHANGED <<variant, env, now, pending, rand, sessions, issued, resp>>

Init ==
    /\ variant \in {"kitchen", "cookie", "bearer", "scoped", "jwt", "plain"}
    /\ env \in IF variant \in {"scoped", "plain"} THEN {""} ELSE {"S3CRET", ""}
    /\ disk = "ok"
    /\ now = 0
    /\ file = IF variant = "jwt" THEN ensureFiles ELSE Missing
    /\ pending = {}
    /\ rand = [tokens |-> 0, pinIds |-> 0]
    /\ sessions = <<>>
    /\ issued = {}
    /\ resp = [op |-> "none", code |-> 0, body |-> Null, runs |-> 0]

-----------------------------------------------------------------------------
(* The specification of the whole system without a clock: every handler of *)
(* every version, over small sets of inputs, with at most one handler      *)
(* suspended in an await at a time.                                        *)

ReqServices == {"bar", "petitdej", "cuisine"}
JwtServices == {"bar", "cuisine"}
ReqBodies == {Wrapped}
ReqPins == {"1234", "12", "12345", " 1234 "}
LoginPins == ReqPins \cup {"5678"}
ReqSecrets == {"S3CRET", "guess", ""}
Reqs ==
    {Req(c, NoToken) : c \in 0..MaxTokens} \cup {Req(NoToken, b) : b \in 0..MaxTokens}
OneSuspended == Cardinality(pending') <= 1

JwtTokens == issued \cup {NoJwt, [role |-> "owner", exp |-> MaxTime + 9]}

Next ==
    \/ F_GetAll
    \/ \E service \in ReqServices : F_GetOne(service)
    \/ F_PinStatus
    \/ \E setupSecret \in ReqSecrets, pin \in ReqPins :
          F_SetupBegin(setupSecret, pin) /\ OneSuspended
    \/ \E h \in pending : F_SetupEnd(h)
    \/ \E pin \in LoginPins : F_LoginBegin(pin) /\ OneSuspended
    \/ \E h \in pending : F_LoginEnd(h)
    \/ \E req \in Reqs : F_ResetValidated(req)
    \/ \E service \in ReqServices, body \in ReqBodies : K_Upsert(service, body)
    \/ \E service \in ReqServices : K_ResetOne(service)
    \/ K_ResetAll
    \/ \E req \in Reqs : K_Validate(req)
    \/ K_GetValidated
    \/ \E req \in Reqs : K_Logout(req)
    \/ \E req \in Reqs : K_Me(req)
    \/ \E service \in ReqServices, body \in ReqBodies : C_UpsertPost(service, body)
    \/ \E req \in Reqs, service \in ReqServices, body \in ReqBodies :
          C_UpsertPut(req, service, body)
    \/ \E req \in Reqs, service \in ReqServices : C_ResetOne(req, service)
    \/ \E req \in Reqs : C_ResetAll(req)
    \/ \E req \in Reqs : C_Validate(req)
    \/ C_GetValidated
    \/ \E req \in Reqs : C_Logout(req)
    \/ \E req \in Reqs : C_Me(req)
    \/ \E service \in ReqServices, body \in ReqBodies : B_Upsert(service, body)
    \/ \E service \in ReqServices : B_ResetOne(service)
    \/ B_ResetAll
    \/ \E req \in Reqs : B_Validate(req)
    \/ B_GetValidated
    \/ \E req \in Reqs : B_Logout(req)
    \/ \E req \in Reqs : B_Me(req)
    \/ \E pin \in LoginPins \cup {"9999"} : S_Login(pin)
    \/ \E req \in Reqs : S_Me(req)
    \/ \E req \in Reqs : S_Logout(req)
    \/ \E req \in Reqs : S_GetPins(req)
    \/ \E req \in Reqs, scope \in {"bar", "recap", "admin"}, pin \in {"1234", "12"} :
          S_SetPin(req, scope, pin)
    \/ \E req \in Reqs, service \in ReqServices : S_GetOne(req, service)
    \/ \E req \in Reqs, service \in ReqServices, body \in ReqBodies :
          S_Upsert(req, service, body)
    \/ \E req \in Reqs : S_GetAll(req)
    \/ \E req \in Reqs, service \in {"bar", "petitdej", "cuisine"} :
          S_Validate(req, service)
    \/ J_PinStatus
    \/ \E setupSecret \in ReqSecrets, role \in {"owner", "chef", "admin"},
          pin \in ReqPins : J_SetupBegin(setupSecret, role, pin) /\ OneSuspended
    \/ \E h \in pending : J_SetupEnd(h)
    \/ \E pin \in LoginPins : J_LoginBegin(pin) /\ OneSuspended
    \/ \E h \in pending : J_LoginEnd(h)
    \/ \E token \in JwtTokens, newPin \in ReqPins :
          J_ResetChefBegin(token, newPin) /\ OneSuspended
    \/ \E h \in pending : J_ResetChefEnd(h)
    \/ J_GetAll
    \/ \E service \in JwtServices : J_GetOne(service)
    \/ \E service \in JwtServices, body \in ReqBodies : J_Put(service, body)
    \/ \E token \in JwtTokens, service \in JwtServices, body \in ReqBodies :
          J_AdminPut(token, service, body)
    \/ \E token \in JwtTokens, service \in JwtServices : J_Reset(token, service)
    \/ \E token \in JwtTokens : J_Validate(token)
    \/ J_GetValidated
    \/ P_GetAll
    \/ \E service \in ReqServices : P_GetOne(service)
    \/ \E service \in ReqServices, body \in {Wrapped, Bare} : P_Upsert(service, body)
    \/ \E service \in ReqServices : P_Reset(service)

Spec == Init /\ [][Next]_vars

-----------------------------------------------------------------------------
(* The specification with the clock: the handlers that create, use, end    *)
(* and purge sessions, with one PIN, and Tick.                             *)

TimedNext ==
    \/ Tick
    \/ F_SetupBegin("S3CRET", "1234") /\ OneSuspended
    \/ \E h \in pending : F_SetupEnd(h)
    \/ F_LoginBegin("1234") /\ OneSuspended
    \/ \E h \in pending : F_LoginEnd(h)
    \/ \E req \in Reqs : F_ResetValidated(req)
    \/ \E req \in Reqs : K_Validate(req) \/ C_Validate(req) \/ B_Validate(req)
    \/ \E req \in Reqs : K_Logout(req) \/ C_Logout(req) \/ B_Logout(req)
    \/ \E req \in Reqs : K_Me(req) \/ C_Me(req) \/ B_Me(req)
    \/ K_Upsert("bar", Wrapped) \/ C_UpsertPost("bar", Wrapped) \/ B_Upsert("bar", Wrapped)
    \/ S_Login("9999")
    \/ \E req \in Reqs : S_Me(req)
    \/ \E req \in Reqs : S_Logout(req)
    \/ \E req \in Reqs : S_GetAll(req)
    \/ J_SetupBegin("S3CRET", "owner", "1234") /\ OneSuspended
    \/ \E h \in pending : J_SetupEnd(h)
    \/ J_LoginBegin("1234") /\ OneSuspended
    \/ \E h \in pending : J_LoginEnd(h)
    \/ \E token \in JwtTokens : J_Validate(token)

TimedSpec == Init /\ [][TimedNext]_vars

-----------------------------------------------------------------------------
(* The specification of the credential handlers alone, with up to          *)
(* MaxPending of them suspended at a time.                                 *)

SetupPins == {"1234", "5678", "4321", "12"}

SetupNext ==
    \/ F_PinStatus
    \/ \E setupSecret \in ReqSecrets, pin \in SetupPins :
          F_SetupBegin(setupSecret, pin) /\ Cardinality(pending') <= MaxPending
    \/ \E h \in pending : F_SetupEnd(h)
    \/ \E pin \in {"9999", "1234", "5678"} : S_Login(pin)
    \/ \E req \in Reqs : S_GetPins(req)
    \/ \E req \in Reqs, scope \in {"petitdej", "bar", "recap"},
          pin \in {"1234", "5678", "9999"} :
          S_SetPin(req, scope, pin)
    \/ J_PinStatus
    \/ \E setupSecret \in ReqSecrets, role \in {"owner", "chef"}, pin \in SetupPins :
          J_SetupBegin(setupSecret, role, pin) /\ Cardinality(pending') <= MaxPending
    \/ \E h \in pending : J_SetupEnd(h)

SetupSpec == Init /\ [][SetupNext]_vars

-----------------------------------------------------------------------------
(* The specification of the owner's reset of the chef PIN in the jwt       *)
(* version: setup, login and reset-chef with up to MaxPending of them      *)
(* suspended at a time, and an order route.                                *)

ResetNext ==
    \/ \E role \in Roles, pin \in {"1234", "5678"} :
          J_SetupBegin("S3CRET", role, pin) /\ Cardinality(pending') <= MaxPending
    \/ \E h \in pending : J_SetupEnd(h)
    \/ \E pin \in {"1234", "5678"} : J_LoginBegin(pin) /\ Cardinality(pending') <= MaxPending
    \/ \E h \in pending : J_LoginEnd(h)
    \/ \E token \in JwtTokens, newPin \in {"4321", "12"} :
          J_ResetChefBegin(token, newPin) /\ Cardinality(pending') <= MaxPending
    \/ \E h \in pending : J_ResetChefEnd(h)
    \/ J_Put("bar", Wrapped)

ResetSpec == Init /\ [][ResetNext]_vars

\* The jwt server under a clock: setup of both roles, login, the reset of
\* the chef's PIN and a request behind requireAuth, one handler suspended
\* at a time.
TokenNext ==
    \/ Tick
    \/ \E role \in Roles, pin \in {"1234", "5678"} :
          J_SetupBegin("S3CRET", role, pin) /\ OneSuspended
    \/ \E h \in pending : J_SetupEnd(h)
    \/ \E pin \in {"1234", "5678", "4321"} : J_LoginBegin(pin) /\ OneSuspended
    \/ \E h \in pending : J_LoginEnd(h)
    \/ \E token \in JwtTokens : J_ResetChefBegin(token, "4321") /\ OneSuspended
    \/ \E h \in pending : J_ResetChefEnd(h)
    \/ \E token \in JwtTokens : J_Validate(token)

TokenSpec == Init /\ [][TokenNext]_vars

-----------------------------------------------------------------------------
(* The specification of the requests that carry a bearer token and a       *)
(* cookie at once: one PIN, the logins, the routes behind the session      *)
(* middleware, and the clock.                                              *)

BothReqs == {Req(c, b) : c \in 1..MaxTokens, b \in 1..MaxTokens}

ResolveNext ==
    \/ Tick
    \/ F_SetupBegin("S3CRET", "1234") /\ OneSuspended
    \/ \E h \in pending : F_SetupEnd(h)
    \/ \E pin \in {"1234", "5678"} : F_LoginBegin(pin) /\ OneSuspended
    \/ \E h \in pending : F_LoginEnd(h)
    \/ \E pin \in {"9999", "1234", "5678"} : S_Login(pin)
    \/ \E req \in Reqs : S_SetPin(req, "bar", "1234")
    \/ \E pin \in {"1234", "5678"} : J_LoginBegin(pin) /\ OneSuspended
    \/ \E h \in pending : J_LoginEnd(h)
    \/ J_SetupBegin("S3CRET", "owner", "1234") /\ OneSuspended
    \/ \E h \in pending : J_SetupEnd(h)
    \/ \E req \in Reqs \cup BothReqs :
          \/ F_ResetValidated(req)
          \/ K_Validate(req) \/ C_Validate(req) \/ B_Validate(req)
          \/ K_Logout(req) \/ C_Logout(req) \/ B_Logout(req) \/ S_Logout(req)
          \/ K_Me(req) \/ C_Me(req) \/ B_Me(req) \/ S_Me(req)
          \/ S_GetAll(req)

ResolveSpec == Init /\ [][ResolveNext]_vars

-----------------------------------------------------------------------------
(* The specification of the order routes: getOne, upsert and resetOne of   *)
(* two departments in every version, over payloads of every shape and      *)
(* every type of value, with one PIN for the routes behind a session.      *)

OrderBodies == {Wrapped, Bare, Mixed, JObj([donnees |-> Mixed])}

OrderNext ==
    \/ F_SetupBegin("S3CRET", "1234") /\ OneSuspended
    \/ \E h \in pending : F_SetupEnd(h)
    \/ F_LoginBegin("1234") /\ OneSuspended
    \/ \E h \in pending : F_LoginEnd(h)
    \/ S_Login("9999")
    \/ J_SetupBegin("S3CRET", "owner", "1234") /\ OneSuspended
    \/ \E h \in pending : J_SetupEnd(h)
    \/ J_LoginBegin("1234") /\ OneSuspended
    \/ \E h \in pending : J_LoginEnd(h)
    \/ \E service \in {"bar", "petitdej"} :
          \/ F_GetOne(service) \/ J_GetOne(service) \/ P_GetOne(service)
          \/ \E req \in Reqs : S_GetOne(req, service)
          \/ \E body \in OrderBodies :
                \/ K_Upsert(service, body)
                \/ C_UpsertPost(service, body)
                \/ B_Upsert(service, body)
                \/ J_Put(service, body)
                \/ P_Upsert(service, body)
                \/ \E req \in Reqs : S_Upsert(req, service, body)
          \/ K_ResetOne(service)
          \/ B_ResetOne(service)
          \/ P_Reset(service)
          \/ \E req \in Reqs : C_ResetOne(req, service)
          \/ \E token \in JwtTokens : J_Reset(token, service)

OrderSpec == Init /\ [][OrderNext]_vars

-----------------------------------------------------------------------------
(* The specification with a store that fails: every handler that writes,   *)
(* the read routes, one PIN, and Fault.                                    *)

FaultNext ==
    \/ Fault
    \/ F_SetupBegin("S3CRET", "1234") /\ OneSuspended
    \/ \E h \in pending : F_SetupEnd(h)
    \/ F_LoginBegin("1234") /\ OneSuspended
    \/ \E h \in pending : F_LoginEnd(h)
    \/ F_GetAll
    \/ F_GetOne("bar")
    \/ K_Upsert("bar", Wrapped)
    \/ K_ResetOne("bar")
    \/ K_ResetAll
    \/ K_GetValidated
    \/ C_UpsertPost("bar", Wrapped)
    \/ C_GetValidated
    \/ B_Upsert("bar", Wrapped)
    \/ B_ResetOne("bar")
    \/ B_ResetAll
    \/ B_GetValidated
    \/ \E req \in Reqs :
          \/ F_ResetValidated(req)
          \/ K_Validate(req) \/ K_Logout(req) \/ K_Me(req)
          \/ C_UpsertPut(req, "bar", Wrapped) \/ C_ResetOne(req, "bar")
          \/ C_ResetAll(req) \/ C_Validate(req) \/ C_Logout(req) \/ C_Me(req)
          \/ B_Validate(req) \/ B_Logout(req) \/ B_Me(req)
          \/ S_Me(req) \/ S_Logout(req) \/ S_SetPin(req, "bar", "1234")
          \/ S_GetOne(req, "bar") \/ S_Upsert(req, "bar", Wrapped)
          \/ S_GetAll(req) \/ S_Validate(req, "bar")
    \/ \E pin \in {"9999", "1234"} : S_Login(pin)
    \/ J_SetupBegin("S3CRET", "owner", "1234") /\ OneSuspended
    \/ \E h \in pending : J_SetupEnd(h)
    \/ \E pin \in {"1234", "5678"} : J_LoginBegin(pin) /\ OneSuspended
    \/ \E h \in pending : J_LoginEnd(h)
    \/ J_GetAll
    \/ J_GetOne("bar")
    \/ J_Put("bar", Wrapped)
    \/ J_GetValidated
    \/ \E token \in JwtTokens :
          \/ J_AdminPut(token, "bar", Wrapped)
          \/ J_Reset(token, "bar")
          \/ J_Validate(token)
    \/ P_GetAll
    \/ P_GetOne("bar")
    \/ P_Upsert("bar", Wrapped)
    \/ P_Reset("bar")

FaultSpec == Init /\ [][FaultNext]_vars

-----------------------------------------------------------------------------
(* What a reader gets from the read routes in a state.                     *)

\* The body of GET /api/commandes.
GetAll(f) ==
    IF variant = "jwt" THEN readJsonSafe(f.commandes, <<>>)
    ELSE IF variant = "plain" THEN P_loadData(f)
    ELSE IF variant = "scoped" THEN OrdersOf(S_loadData(f))
    ELSE OrdersOf(loadData(f))

\* The body of GET /api/validated.
GetValidated(f) ==
    IF variant = "jwt" THEN f.validated
    ELSE IF variant = "plain" THEN Null
    ELSE IF variant = "cookie" THEN C_ValidatedBody(loadData(f))
    ELSE loadData(f).validated

\* The records by department that a snapshot holds: under commandes, and at
\* the top level in the kitchen version.
Commandes(snapshot) ==
    IF variant = "kitchen"
    THEN [petitdej |-> snapshot.petitdej, bar |-> snapshot.bar,
          entretien |-> snapshot.entretien]
    ELSE snapshot.commandes

-----------------------------------------------------------------------------
(* The steps the claims speak of.                                          *)

ValidateStep ==
    \/ \E req \in Reqs : K_Validate(req) \/ C_Validate(req) \/ B_Validate(req)
    \/ \E token \in JwtTokens : J_Validate(token)

\* The order routes of the versions, by department: getOne, upsert and
\* resetOne.
GetOneStep(service) ==
    \/ F_GetOne(service) \/ J_GetOne(service) \/ P_GetOne(service)
    \/ \E req \in Reqs : S_GetOne(req, service)

UpsertStep(service, body) ==
    \/ K_Upsert(service, body)
    \/ C_UpsertPost(service, body)
    \/ B_Upsert(service, body)
    \/ J_Put(service, body)
    \/ P_Upsert(service, body)
    \/ \E req \in Reqs : C_UpsertPut(req, service, body) \/ S_Upsert(req, service, body)
    \/ \E token \in JwtTokens : J_AdminPut(token, service, body)

ResetOneStep(service) ==
    \/ K_ResetOne(service)
    \/ B_ResetOne(service)
    \/ P_Reset(service)
    \/ \E req \in Reqs : C_ResetOne(req, service)
    \/ \E token \in JwtTokens : J_Reset(token, service)

ResetAllStep ==
    \/ K_ResetAll
    \/ B_ResetAll
    \/ \E req \in Reqs : C_ResetAll(req)

\* GET /api/pin/me: the status and the authenticated member of its answer.
MeAnswer(f, req, t) ==
    IF variant = "cookie" THEN [code |-> 500, authenticated |-> FALSE]
    ELSE IF variant = "bearer"
    THEN [code |-> 200, authenticated |-> B_getSession(loadData(f), req, t) # Null]
    ELSE [code |-> 200, authenticated |-> getSession(loadData(f), req.cookie, t) # Null]

\* A login request with a PIN, in whichever version runs.
LoginStep(pin) == F_LoginBegin(pin) \/ J_LoginBegin(pin) \/ S_Login(pin)

\* A logout request, and the token whose session it is to delete.
LogoutStep(req) == K_Logout(req) \/ C_Logout(req) \/ B_Logout(req) \/ S_Logout(req)
LogoutToken(req) ==
    IF variant \in {"kitchen", "cookie"} THEN req.cookie ELSE S_Token(req)

S_ValidateStep ==
    \E req \in Reqs, service \in {"bar", "petitdej", "cuisine"} : S_Validate(req, service)

\* The requests that run behind the session middleware, but for logout.
GuardedStep(req) ==
    \/ K_Validate(req) \/ C_Validate(req) \/ B_Validate(req)
    \/ F_ResetValidated(req)
    \/ S_Me(req) \/ S_GetAll(req)

MeStep(req) == K_Me(req) \/ C_Me(req) \/ B_Me(req)

\* The sessions the server holds: in the document, or in memory.
StoredSessions ==
    IF variant \in Family THEN loadData(file).sessions
    ELSE IF variant = "scoped" THEN sessions
    ELSE <<>>

\* Whether the session middleware lets the request through, and the token of
\* the session it resolves.
AuthOk(req) ==
    IF variant \in Family THEN Auth(file, req, now).ok
    ELSE variant = "scoped" /\ authMiddleware(req, now).code = 0

AuthToken(req) ==
    IF variant = "bearer" THEN B_getSession(loadData(file), req, now).token
    ELSE IF variant = "scoped" THEN S_Token(req)
    ELSE req.cookie

\* The tokens of a request that the version looks at.
Carried(req) ==
    (IF variant \in {"kitchen", "cookie"} THEN {req.cookie} ELSE {req.cookie, req.bearer})
        \ {NoToken}

Expired(token) ==
    token \in DOMAIN StoredSessions /\ StoredSessions[token].expiresAt <= now

\* Whether a token names a session that is stored and has not expired.
Live(token) ==
    token \in DOMAIN StoredSessions /\ StoredSessions[token].expiresAt > now

\* The credentials the store holds, and how many they are.
Credentials ==
    IF variant \in Family THEN loadData(file).pins
    ELSE IF variant = "scoped" THEN S_loadData(file).pins
    ELSE IF variant = "plain" THEN <<>>
    ELSE file.pins

CredentialCount ==
    IF variant \in Family THEN Len(loadData(file).pins)
    ELSE IF variant = "scoped" THEN Cardinality(DOMAIN S_loadData(file).pins)
    ELSE IF variant = "plain" THEN 0
    ELSE Cardinality({r \in Roles : file.pins[r] # Null})

\* The credential slots that hold a credential: the ids of the pins, the
\* scopes, or the roles.
Slots ==
    IF variant \in Family THEN Ids(loadData(file).pins)
    ELSE IF variant = "scoped" THEN DOMAIN S_loadData(file).pins
    ELSE IF variant = "plain" THEN {}
    ELSE {r \in Roles : file.pins[r] # Null}

\* The credential of a slot that holds one.
CredentialOf(slot) ==
    IF variant \in Family
    THEN LET pins == loadData(file).pins
         IN  pins[CHOOSE i \in DOMAIN pins : pins[i].id = slot]
    ELSE IF variant = "scoped" THEN S_loadData(file).pins[slot]
    ELSE file.pins[slot]

\* Its hash and its createdAt (the scoped version keeps no createdAt).
HashOf(slot) == CredentialOf(slot).hash
CreatedAt(slot) == IF variant = "scoped" THEN NoTime ELSE CredentialOf(slot).createdAt

\* Whether the credential of a slot is the credential of a PIN.
Matches(slot, pin) ==
    HashOf(slot) = IF variant = "scoped" THEN hashPin(pin) ELSE BcryptHash(pin)

\* The order in which login tries the slots: owner then chef, the scopes in
\* the order of the loop, the pins in the order of Object.keys.
SlotOrder ==
    IF variant = "jwt" THEN <<"owner", "chef">>
    ELSE IF variant = "scoped" THEN PinScopes
    ELSE IF variant = "plain" THEN <<>>
    ELSE [i \in DOMAIN loadData(file).pins |-> loadData(file).pins[i].id]

\* The fields of the stored record of a department: its donnees, which the
\* jwt version keeps one level down and the plain version keeps as the
\* JSON value of the request.
Fields(f, service) ==
    IF variant \in Family THEN loadData(f)[service].donnees
    ELSE IF variant = "scoped" THEN S_loadData(f)[service].donnees
    ELSE IF variant = "jwt" THEN f.commandes[service].donnees.donnees
    ELSE LET d == P_loadData(f)[service].donnees
         IN  IF d.t = "object" THEN d.o ELSE <<>>

\* The slots whose credential is the credential of a PIN, as places in
\* SlotOrder.
Hits(pin) ==
    {i \in DOMAIN SlotOrder : SlotOrder[i] \in Slots /\ Matches(SlotOrder[i], pin)}

-----------------------------------------------------------------------------
-----------------------------------------------------------------------------
\* C2: a reset-all by an authorized caller answers success, and in the
\* store it leaves every department's record is empty and the snapshot is
\* cleared.
C2_ResetAllClears ==
    [][(\/ K_ResetAll
        \/ B_ResetAll
        \/ \E req \in Reqs : C_ResetAll(req) /\ Auth(file, req, now).ok)
       => /\ resp'.code = 200
          /\ GetAll(file') = [petitdej |-> Null, bar |-> Null, entretien |-> Null]
          /\ loadData(file').validated = Null]_vars

-----------------------------------------------------------------------------
\* C3: a request to reset/:service, reset-all, validate or validated/reset
\* that carries no valid, unexpired session changes no order record and
\* leaves the snapshot as it is.
C3_GuardedMutations ==
    [][(\/ \E req \in Reqs :
              /\ variant \in Family
              /\ ~Auth(file, req, now).ok
              /\ \/ ResetAllStep
                 \/ K_Validate(req) \/ C_Validate(req) \/ B_Validate(req)
                 \/ F_ResetValidated(req)
                 \/ \E service \in ReqServices :
                       \/ K_ResetOne(service) \/ B_ResetOne(service)
                       \/ C_ResetOne(req, service)
        \/ \E token \in JwtTokens :
              /\ requireAuth({"owner", "chef"}, token, now) # 0
              /\ \/ J_Validate(token)
                 \/ \E service \in JwtServices : J_Reset(token, service))
       => /\ GetAll(file') = GetAll(file)
          /\ GetValidated(file') = GetValidated(file)]_vars

-----------------------------------------------------------------------------
\* C4: once a snapshot is written, what GET /api/validated returns stays
\* the same over every step that is no validate, no validated/reset and no
\* reset-all: upsert, reset of a department, login, logout, setup and the
\* refresh of a session leave it unchanged.
C4_SnapshotStable ==
    [][(/\ variant # "scoped"
        /\ GetValidated(file) \notin {Null, ensureFiles.validated,
                                      [validatedAt |-> NoTime, commandes |-> <<>>]}
        /\ ~(\/ ValidateStep \/ ResetAllStep
             \/ \E req \in Reqs : F_ResetValidated(req)))
       => GetValidated(file') = GetValidated(file)]_vars

-----------------------------------------------------------------------------
\* C5: a validate that answers success leaves in the store a snapshot that
\* is whole: the records of all departments as they stood before the call,
\* under the one timestamp of that call, with nothing of an older snapshot.
C5_SnapshotWhole ==
    [][(/\ ValidateStep \/ S_ValidateStep
        /\ resp'.code = 200)
       => IF variant = "scoped"
          THEN S_loadData(file').validated =
                  [s \in SERVICES |->
                      [validatedAt |-> now, payload |-> S_loadData(file)[s]]]
          ELSE /\ Commandes(GetValidated(file')) = GetAll(file)
               /\ GetValidated(file').validatedAt = now]_vars

-----------------------------------------------------------------------------
\* C6: GET /api/validated never answers a null top-level value; while there
\* is no snapshot it answers a well-formed empty snapshot.
C6_ValidatedNeverNull ==
    resp.op = "getValidated" =>
        /\ resp.body # Null
        /\ "validatedAt" \in DOMAIN resp.body

-----------------------------------------------------------------------------
\* C7: a login with the PIN of a stored credential answers with a token
\* whose session is in the store, and GET /api/pin/me with the token of a
\* stored session that has not expired answers authenticated: true.
C7_LoginThenMe ==
    [][/\ ((\E h \in pending : F_LoginEnd(h)) =>
             MeAnswer(file', Req(resp'.body.cookie, NoToken), now)
                = [code |-> 200, authenticated |-> TRUE])
       /\ \A req \in Reqs :
             (/\ K_Me(req) \/ C_Me(req) \/ B_Me(req)
              /\ Auth(file, req, now).ok)
             => resp'.code = 200 /\ resp'.body = [authenticated |-> TRUE]]_vars

-----------------------------------------------------------------------------
-----------------------------------------------------------------------------
\* C9 as stated: every request that a session authenticates, GET /api/pin/me
\* included, leaves that session with expiresAt = time of the request + TTL.
C9_EveryAuthRefreshes ==
    [][\A req \in Reqs :
          (\/ GuardedStep(req) /\ AuthOk(req)
           \/ MeStep(req) /\ resp'.body = [authenticated |-> TRUE])
          => /\ AuthToken(req) \in DOMAIN StoredSessions'
             /\ StoredSessions'[AuthToken(req)].expiresAt = now + SESSION_TTL_MS]_vars

\* C9 amended: every request that passes the session middleware leaves its
\* session with expiresAt = time of the request + TTL; GET /api/pin/me of
\* the versions that keep it outside the middleware writes nothing; and no
\* request changes a JWT that was issued.
C9_MiddlewareRefreshes ==
    [][/\ \A req \in Reqs :
             /\ (GuardedStep(req) /\ AuthOk(req))
                => /\ AuthToken(req) \in DOMAIN StoredSessions'
                   /\ StoredSessions'[AuthToken(req)].expiresAt = now + SESSION_TTL_MS
             /\ MeStep(req) => file' = file
       /\ issued \subseteq issued']_vars

\* A guarded request, one tick after the login, has moved the expiry on.
C9_Witness ==
    /\ variant \in Family
    /\ now = 1
    /\ resp.op = "resetValidated" /\ resp.code = 200
    /\ \E token \in DOMAIN StoredSessions :
          StoredSessions[token].expiresAt = now + SESSION_TTL_MS

-----------------------------------------------------------------------------
\* C10: the store never holds more than MAX_PINS credentials; and when it
\* holds MAX_PINS, a setup call with the right secret and a four-digit PIN
\* answers the capacity error, and no step of a setup call, also not the
\* completion of one that ran concurrently with another, changes the
\* credentials.
C10_CapacityHolds ==
    [][/\ CredentialCount' <= MAX_PINS
       /\ CredentialCount = MAX_PINS =>
             /\ \A pin \in {"1234", "5678", "4321"} :
                   /\ F_SetupBegin(SETUP_SECRET, pin)
                         => /\ resp'.op = "setup" /\ resp'.code = 400
                            /\ resp'.body = [error |-> "MAX_PINS_REACHED"]
                   /\ \A role \in Roles :
                         J_SetupBegin(SETUP_SECRET, role, pin)
                            => resp'.op = "setup" /\ resp'.code = 403
                   /\ \A req \in Reqs, scope \in {"petitdej", "bar", "recap"} :
                         S_SetPin(req, scope, pin) => resp'.code # 200
             /\ Credentials' = Credentials]_vars

-----------------------------------------------------------------------------
\* C11: a setup call whose secret is not the secret the process was
\* configured with, or any setup call when no secret is configured, answers
\* an error, starts nothing and leaves the credentials as they are.
C11_SetupDenied ==
    [][\A setupSecret \in ReqSecrets, pin \in SetupPins, role \in Roles :
          (/\ F_SetupBegin(setupSecret, pin) \/ J_SetupBegin(setupSecret, role, pin)
           /\ SETUP_SECRET = "" \/ setupSecret # SETUP_SECRET)
          => /\ resp'.op = "setup"
             /\ resp'.code \in {400, 401}
             /\ resp'.body.error \in {"SETUP_SECRET_NOT_CONFIGURED", "BAD_SETUP_SECRET",
                                      "Setup secret invalide"}
             /\ Credentials' = Credentials
             /\ pending' = pending]_vars

\* A setup with a wrong secret was refused while a credential was stored.
C11_Witness ==
    /\ resp.op = "setup" /\ resp.code = 401
    /\ CredentialCount = 1
    /\ SETUP_SECRET # ""

-----------------------------------------------------------------------------
\* C12: a slot that holds a credential holds one in every later state, with
\* the same createdAt, and with the same hash unless the step is the reset
\* of the chef PIN; and a setup call for a slot that holds a credential is
\* refused.
C12_SlotOneWay ==
    [][/\ \A slot \in Slots :
             /\ slot \in Slots'
             /\ CreatedAt(slot)' = CreatedAt(slot)
             /\ HashOf(slot)' # HashOf(slot) => \E h \in pending : J_ResetChefEnd(h)
       /\ \A pin \in {"1234", "5678", "4321"} :
             /\ \A role \in Roles :
                   (/\ variant = "jwt"
                    /\ role \in Slots
                    /\ J_SetupBegin(SETUP_SECRET, role, pin))
                   => resp'.op = "setup" /\ resp'.code \in {403, 409}
             /\ \A req \in Reqs, scope \in {"petitdej", "bar", "recap"} :
                   (/\ variant = "scoped"
                    /\ scope \in Slots
                    /\ S_SetPin(req, scope, pin))
                   => resp'.code # 200]_vars

-----------------------------------------------------------------------------
\* C13 as stated: a login with a PIN that is not exactly four digits answers
\* the validation error, suspends nothing (no hash is compared), creates no
\* session and changes no state.
C13_MalformedPinRejected ==
    [][\A pin \in {"12", "12345", " 1234 "} :
          LoginStep(pin)
          => /\ resp'.op = "login" /\ resp'.code = 400
             /\ resp'.body.error \in {"PIN_MUST_BE_4_DIGITS", "PIN_INVALID",
                                      "PIN invalide (4 chiffres)"}
             /\ UNCHANGED <<file, sessions, issued, pending, rand>>]_vars

\* C13 amended: the same of a PIN that is not exactly four digits once the
\* white space around it is removed, and in the jwt version of a PIN that is
\* not exactly four digits as it came.
C13_TrimmedPinRejected ==
    [][\A pin \in {"12", "12345", " 1234 "} :
          (/\ LoginStep(pin)
           /\ (IF variant = "jwt" THEN pin ELSE Trim(pin))
                 \notin {"1234", "5678", "4321", "9999"})
          => /\ resp'.op = "login" /\ resp'.code = 400
             /\ resp'.body.error \in {"PIN_MUST_BE_4_DIGITS", "PIN_INVALID",
                                      "PIN invalide (4 chiffres)"}
             /\ UNCHANGED <<file, sessions, issued, pending, rand>>]_vars

\* A malformed PIN was refused while a credential was stored.
C13_Witness ==
    /\ resp.op = "login" /\ resp.code = 400
    /\ resp.body.error \in {"PIN_MUST_BE_4_DIGITS", "PIN_INVALID",
                            "PIN invalide (4 chiffres)"}
    /\ CredentialCount >= 1

-----------------------------------------------------------------------------
\* C14 as stated: a login with a four-digit PIN that is the PIN of no
\* stored credential (so every login while the store holds none) answers
\* the authentication failure, creates no session and suspends nothing.
C14_NoMatchNoSession ==
    [][\A pin \in {"1234", "5678", "9999"} :
          (LoginStep(pin) /\ \A slot \in Slots : ~Matches(slot, pin))
          => /\ resp'.op = "login" /\ resp'.code \in {400, 401}
             /\ resp'.body.error \in {"NO_PIN_SET", "BAD_PIN", "PIN incorrect"}
             /\ UNCHANGED <<file, sessions, issued, pending, rand>>]_vars

\* C14 amended: the same of every four-digit PIN but the master PIN of the
\* scoped version, which no credential of the store holds.
C14_NoMatchButMaster ==
    [][\A pin \in {"1234", "5678", "9999"} :
          (/\ LoginStep(pin)
           /\ \A slot \in Slots : ~Matches(slot, pin)
           /\ ~(variant = "scoped" /\ pin = MASTER_PIN))
          => /\ resp'.op = "login" /\ resp'.code \in {400, 401}
             /\ resp'.body.error \in {"NO_PIN_SET", "BAD_PIN", "PIN incorrect"}
             /\ UNCHANGED <<file, sessions, issued, pending, rand>>]_vars

\* A four-digit PIN of no stored credential was refused while another
\* credential was stored.
C14_Witness ==
    /\ resp.op = "login" /\ resp.code = 401
    /\ CredentialCount >= 1

-----------------------------------------------------------------------------
\* C15: a login whose PIN is the PIN of stored credentials is bound to the
\* earliest of them in the slot order (owner, chef; petitdej, bar,
\* entretien, recap; the pins in the order they were stored), and the
\* session or token the login then issues carries that identity.
C15_FirstMatchWins ==
    [][/\ \A pin \in {"1234", "5678"} :
             Hits(pin) # {} =>
                LET first == SlotOrder[CHOOSE i \in Hits(pin) : \A j \in Hits(pin) : i <= j]
                IN  /\ (J_LoginBegin(pin) /\ pending' # pending)
                          => \A h \in pending' \ pending : h.role = first
                    /\ (F_LoginBegin(pin) /\ pending' # pending)
                          => \A h \in pending' \ pending : h.pinId = first
                    /\ (S_Login(pin) /\ resp'.code = 200)
                          => sessions'[resp'.body.token].scope = first
       /\ \A h \in pending :
             /\ J_LoginEnd(h) => resp'.body.token.role = h.role
             /\ F_LoginEnd(h) => StoredSessions'[h.id].pinId = h.pinId]_vars

\* The owner and the chef have the same PIN, and the login with it has
\* issued a token of the owner.
C15_Witness ==
    /\ variant = "jwt"
    /\ Slots = {"owner", "chef"}
    /\ HashOf("owner") = HashOf("chef")
    /\ resp.op = "login" /\ resp.code = 200
    /\ resp.body.token.role = "owner"

-----------------------------------------------------------------------------
\* C16: the body of a successful login is the body the same login would
\* have sent had another slot matched: of two runs that differ in the
\* matched slot alone, the bodies are equal.
C16_LoginBodyHidesSlot ==
    [][/\ \A h \in pending :
             J_LoginEnd(h) =>
                \A role \in Roles : resp'.body = J_LoginBody(jwtSign(role, now))
       /\ \A pin \in LoginPins \cup {"9999"} :
             (S_Login(pin) /\ resp'.code = 200) =>
                \A scope \in {"admin", "petitdej", "bar", "entretien", "recap"} :
                   resp'.body = S_LoginBody(resp'.body.token, scope)
       /\ \A h \in pending :
             F_LoginEnd(h) => DOMAIN resp'.body = {"success", "cookie", "token"}]_vars

-----------------------------------------------------------------------------
\* C17: a request that carries a bearer token and a cookie is let through
\* the session middleware exactly when its bearer token names a stored,
\* unexpired session, whatever its cookie names.
C17_BearerAlone ==
    [][\A req \in BothReqs :
          GuardedStep(req) => (resp'.code # 401 <=> Live(req.bearer))]_vars

-----------------------------------------------------------------------------
\* C18: behind requireScope(allowed...) the request of a live session runs
\* the handler when the session's scope is admin or one of allowed, and is
\* answered 403 with the document untouched otherwise; behind
\* requireAuth(roles) the same holds of the token's role, the owner being
\* in every list of roles.
C18_ScopeGate ==
    [][/\ \A req \in Reqs :
             (variant = "scoped" /\ Live(S_Token(req))) =>
                LET scope == sessions[S_Token(req)].scope
                    Gate(allowed) ==
                        IF scope = "admin" \/ scope \in allowed
                        THEN resp'.code \notin {401, 403}
                        ELSE resp'.code = 403 /\ file' = file
                IN  /\ \A service \in SERVICES :
                          /\ (resp'.op = "getOne" /\ S_GetOne(req, service))
                                => Gate({service, "recap"})
                          /\ \A body \in ReqBodies :
                                (resp'.op = "upsert" /\ S_Upsert(req, service, body))
                                   => Gate({service, "recap"})
                    /\ (resp'.op = "getAll" /\ S_GetAll(req)) => Gate({"recap"})
                    /\ (resp'.op = "getPins" /\ S_GetPins(req)) => Gate({"admin"})
                    /\ \A sc \in {"bar", "recap"}, pin \in ReqPins :
                          (resp'.op = "setPin" /\ S_SetPin(req, sc, pin)) => Gate({"admin"})
       /\ \A token \in issued :
             now < token.exp =>
                /\ \A newPin \in ReqPins :
                      J_ResetChefBegin(token, newPin) =>
                         IF token.role = "owner"
                         THEN pending' # pending \/ resp'.code \in {400, 404}
                         ELSE resp'.code = 403 /\ UNCHANGED <<file, pending>>
                /\ (\/ J_Validate(token)
                    \/ \E service \in JwtServices : J_Reset(token, service))
                      => resp'.code = 200]_vars

\* A session of a scope that is neither admin nor allowed was answered 403.
C18_Witness ==
    /\ variant = "scoped"
    /\ resp.op \in {"getOne", "upsert", "getAll"}
    /\ resp.code = 403

-----------------------------------------------------------------------------
\* C19 as stated: a logout answers success, also with an unknown or absent
\* token; it leaves no session of its token, and every other session as it
\* was (so that a second logout gives the same answer and the same store).
C19_LogoutIdempotent ==
    [][\A req \in Reqs :
          LogoutStep(req) =>
             /\ resp'.code = 200
             /\ LogoutToken(req) \notin DOMAIN StoredSessions'
             /\ \A token \in DOMAIN StoredSessions \ {LogoutToken(req)} :
                   /\ token \in DOMAIN StoredSessions'
                   /\ StoredSessions'[token] = StoredSessions[token]]_vars

\* C19 amended: a logout leaves no session of its token, creates none, and
\* leaves every other session that has not expired as it was; POST
\* /api/pin/logout always answers success, POST /api/auth/logout answers
\* success to the token of a live session and 401 to any other.
C19_LogoutDeletes ==
    [][\A req \in Reqs :
          LogoutStep(req) =>
             /\ LogoutToken(req) \notin DOMAIN StoredSessions'
             /\ DOMAIN StoredSessions' \subseteq DOMAIN StoredSessions
             /\ \A token \in DOMAIN StoredSessions \ {LogoutToken(req)} :
                   ~Expired(token) =>
                      /\ token \in DOMAIN StoredSessions'
                      /\ StoredSessions'[token] = StoredSessions[token]
             /\ IF variant = "scoped"
                THEN resp'.code = IF Live(LogoutToken(req)) THEN 200 ELSE 401
                ELSE resp'.code = 200]_vars

\* A session was opened and a logout has deleted it.
C19_Witness ==
    /\ resp.op = "logout" /\ resp.code = 200
    /\ now = 0
    /\ rand.tokens >= 1
    /\ pending = {}
    /\ DOMAIN StoredSessions = {}

-----------------------------------------------------------------------------
\* C20: a reset of the chef PIN goes on to its save only for an unexpired
\* token of the owner and when the chef has a PIN; any other call leaves
\* the files alone; and the save changes the chef's hash and resetAt and
\* nothing else: the chef's createdAt, the owner's credential, the orders
\* and the snapshot are what they were before it.
C20_ResetChefFrame ==
    [][/\ \A token \in JwtTokens, newPin \in {"4321", "12"} :
             J_ResetChefBegin(token, newPin) =>
                /\ file' = file
                /\ pending' # pending =>
                      /\ token \in issued /\ token.role = "owner" /\ now < token.exp
                      /\ file.pins.chef # Null
       /\ \A h \in pending :
             J_ResetChefEnd(h) =>
                /\ file'.pins.owner = file.pins.owner
                /\ file.pins.chef # Null
                /\ file'.pins.chef.createdAt = file.pins.chef.createdAt
                /\ file'.pins.chef.hash = BcryptHash(h.pin)
                /\ file'.commandes = file.commandes
                /\ file'.validated = file.validated]_vars

-----------------------------------------------------------------------------
\* C21: an order operation on a department outside the fixed set answers an
\* error and leaves the files as they were: no record is created under the
\* unknown name.
C21_UnknownDepartment ==
    [][\A service \in {"cuisine"} :
          (/\ resp'.op \in {"getOne", "upsert", "resetOne"}
           /\ \/ GetOneStep(service) \/ ResetOneStep(service)
              \/ \E body \in {Wrapped, Bare} : UpsertStep(service, body))
             => (resp'.code >= 400 /\ file' = file)]_vars

-----------------------------------------------------------------------------
\* C22: an upsert that answers success stores the flat mapping of the items
\* the payload carries, whether the payload is {donnees: {cafe: ...}} or the
\* bare {cafe: ...}: the stored fields are the item cafe alone, with no
\* 'donnees' key or level left by the wrapper.
C22_FlatFields ==
    [][\A service \in SERVICES, body \in {Wrapped, Bare} :
          (/\ resp'.op = "upsert" /\ resp'.code = 200
           /\ UpsertStep(service, body))
             => DOMAIN Fields(file', service) = {"cafe"}]_vars

-----------------------------------------------------------------------------
\* C23: after an upsert that answers success, every key of the payload
\* whose value is not an object is stored with the trimmed string form of
\* its value (the text of a number or a boolean, the empty string for
\* null), and no key whose value is an object is stored.  The jwt and the
\* plain version store JSON values: there the stored value is to be the
\* JSON string of that text.
C23_TrimmedStrings ==
    [][\A service \in SERVICES, body \in OrderBodies :
          (/\ resp'.op = "upsert" /\ resp'.code = 200
           /\ UpsertStep(service, body))
             => LET items == IF HasObject(body, "donnees")
                             THEN body.o["donnees"].o ELSE body.o
                    stored == Fields(file', service)
                    text(v) == IF v.t = "null" THEN "" ELSE Trim(v.s)
                IN  \A k \in DOMAIN items :
                       IF items[k].t = "object" THEN k \notin DOMAIN stored
                       ELSE /\ k \in DOMAIN stored
                            /\ stored[k] =
                                  IF variant \in {"jwt", "plain"}
                                  THEN [t |-> "string", s |-> text(items[k]), o |-> <<>>]
                                  ELSE text(items[k])]_vars

-----------------------------------------------------------------------------
\* C24: after an upsert that answers success, the stored fields of the
\* department follow the merge policy of the version.  In the jwt version
\* every key of the payload has the payload's value and every other key
\* that was stored keeps its value; in the other versions the stored keys
\* are the keys of the payload that carry a value, and every other key that
\* was stored is gone.  The records of the other departments are unchanged.
C24_MergePolicy ==
    [][\A service \in SERVICES, body \in OrderBodies :
          (/\ resp'.op = "upsert" /\ resp'.code = 200
           /\ UpsertStep(service, body))
             => LET items == IF HasObject(body, "donnees")
                             THEN body.o["donnees"].o ELSE body.o
                    old == IF GetAll(file)[service] = Null THEN <<>>
                           ELSE Fields(file, service)
                    new == Fields(file', service)
                IN  /\ IF variant = "jwt"
                       THEN /\ DOMAIN new = DOMAIN old \cup DOMAIN items
                            /\ \A k \in DOMAIN items : new[k] = items[k]
                            /\ \A k \in DOMAIN old \ DOMAIN items : new[k] = old[k]
                       ELSE DOMAIN new = {k \in DOMAIN items : items[k].t # "object"}
                    /\ \A d \in SERVICES \ {service} :
                          GetAll(file')[d] = GetAll(file)[d]]_vars

-----------------------------------------------------------------------------
\* C25: after a reset of a department that answers success, the record of
\* the department that the read routes return is a record with no fields
\* and a null updatedAt, and the records of the other departments are
\* unchanged.
C25_ResetOneEmpties ==
    [][\A service \in SERVICES :
          (/\ resp'.op = "resetOne" /\ resp'.code = 200
           /\ ResetOneStep(service))
             => /\ GetAll(file')[service] # Null
                /\ Fields(file', service) = <<>>
                /\ GetAll(file')[service].updatedAt = NoTime
                /\ \A d \in SERVICES \ {service} :
                      GetAll(file')[d] = GetAll(file)[d]]_vars

-----------------------------------------------------------------------------
\* C26: GET /api/commandes/:service of a department of the fixed set never
\* answers null; for a department that was never written it answers a
\* record whose updatedAt is null.
C26_GetOnePlaceholder ==
    [][\A service \in SERVICES :
          (/\ resp'.op = "getOne" /\ resp'.code = 200
           /\ GetOneStep(service))
             => /\ resp'.body.record # Null
                /\ (file = Missing \/ (variant = "jwt" /\ file.commandes = ensureFiles.commandes))
                      => resp'.body.record.updatedAt = NoTime]_vars

-----------------------------------------------------------------------------
(* A store that fails.                                                     *)

\* C27: when fs.writeFileSync throws during a request, the handler that
\* saves answers an error status (400 or more) and never a success; this
\* covers every handler that writes the store, logout and the handlers
\* behind the session middleware included.
C27_SaveFailureIsAnError ==
    [][(/\ disk # "ok"
        /\ resp'.op \in {"setup", "login", "upsert", "resetOne", "resetAll",
                         "validate", "resetValidated", "logout", "setPin"}
        /\ \/ \E h \in pending : F_SetupEnd(h) \/ F_LoginEnd(h) \/ J_SetupEnd(h)
           \/ UpsertStep("bar", Wrapped)
           \/ ResetOneStep("bar")
           \/ K_ResetAll
           \/ B_ResetAll
           \/ \E req \in Reqs :
                 \/ F_ResetValidated(req)
                 \/ K_Validate(req) \/ K_Logout(req)
                 \/ C_ResetAll(req) \/ C_Validate(req) \/ C_Logout(req)
                 \/ B_Validate(req) \/ B_Logout(req)
                 \/ S_SetPin(req, "bar", "1234") \/ S_Validate(req, "bar")
           \/ \E token \in JwtTokens : J_Validate(token))
       => resp'.code >= 400]_vars

\* C28: when fs.writeFileSync throws during a request that saves, the reads
\* after the request return what they returned before it: the orders of
\* getAll and getOne, the snapshot of getValidated and the sessions the
\* store resolves.
C28_FailedSaveDiscards ==
    [][(/\ disk # "ok"
        /\ resp'.op \in {"setup", "login", "upsert", "resetOne", "resetAll",
                         "validate", "resetValidated", "logout", "setPin"}
        /\ \/ \E h \in pending : F_SetupEnd(h) \/ F_LoginEnd(h) \/ J_SetupEnd(h)
           \/ UpsertStep("bar", Wrapped)
           \/ ResetOneStep("bar")
           \/ K_ResetAll
           \/ B_ResetAll
           \/ \E req \in Reqs :
                 \/ F_ResetValidated(req)
                 \/ K_Validate(req) \/ K_Logout(req)
                 \/ C_ResetAll(req) \/ C_Validate(req) \/ C_Logout(req)
                 \/ B_Validate(req) \/ B_Logout(req)
                 \/ S_SetPin(req, "bar", "1234") \/ S_Validate(req, "bar")
           \/ \E token \in JwtTokens : J_Validate(token))
       => /\ GetAll(file') = GetAll(file)
          /\ variant # "scoped" => GetValidated(file') = GetValidated(file)
          /\ variant \in Family =>
                loadData(file').sessions = loadData(file).sessions]_vars

\* C29: when the store file is missing, empty or not JSON, load returns the
\* default state (no snapshot, no pins, no sessions) and getAll has an entry
\* for each of the three departments.
C29_LoadDefaults ==
    (file = Missing \/ (variant = "jwt" /\ file.commandes = Missing)) =>
        /\ DOMAIN GetAll(file) = {"petitdej", "bar", "entretien"}
        /\ variant \in Family =>
              /\ loadData(file).validated = Null
              /\ loadData(file).pins = <<>>
              /\ loadData(file).sessions = <<>>
        /\ variant = "scoped" =>
              /\ S_loadData(file).validated = Null
              /\ S_loadData(file).pins = <<>>

-----------------------------------------------------------------------------
(* The authenticator and the orders.                                       *)

\* C30: a login or a PIN setup that completes leaves the orders and the
\* validated snapshot of the store as they were just before it completed,
\* whatever was written while it was awaiting bcrypt.
C30_AuthKeepsOrders ==
    [][(/\ resp'.op \in {"setup", "login"}
        /\ \/ \E h \in pending :
                 F_SetupEnd(h) \/ F_LoginEnd(h) \/ J_SetupEnd(h) \/ J_LoginEnd(h)
           \/ \E pin \in LoginPins \cup {"9999"} : S_Login(pin))
       => /\ GetAll(file') = GetAll(file)
          /\ variant # "scoped" => GetValidated(file') = GetValidated(file)]_vars

-----------------------------------------------------------------------------
(* Rejections.                                                             *)

\* C31: a login refused for a bad PIN (401) and a request refused for its
\* scope or role (403) change nothing: the store, the sessions in the store
\* and in memory with their expiry, and the tokens issued are as before.
C31_RejectionHasNoEffect ==
    [][(/\ resp'.code \in {401, 403}
        /\ \/ /\ resp'.code = 401
              /\ \E pin \in {"1234", "5678", "9999"} : LoginStep(pin)
           \/ /\ resp'.code = 403
              /\ \E req \in Reqs : S_GetAll(req) \/ S_SetPin(req, "bar", "1234"))
       => /\ file' = file
          /\ sessions' = sessions
          /\ issued' = issued]_vars

-----------------------------------------------------------------------------
(* One request, one run of the handler.                                    *)

\* C32: a validate or resetValidated request that passes the session
\* middleware runs its handler once and gets one answer, the handler's own
\* (never the 404 or 500 of a later layer), and the store holds the result
\* of one mutation: the snapshot taken at this instant, or none.
C32_HandlerRunsOnce ==
    [][\A req \in Reqs :
          (/\ variant \in Family
           /\ resp'.op \in {"validate", "resetValidated"}
           /\ Auth(file, req, now).ok
           /\ \/ K_Validate(req) \/ C_Validate(req) \/ B_Validate(req)
              \/ F_ResetValidated(req))
          => /\ resp'.runs = 1
             /\ resp'.code = 200
             /\ resp'.body.success
             /\ resp'.op = "validate"
                   => /\ loadData(file').validated # Null
                      /\ loadData(file').validated.validatedAt = now
                      /\ resp'.body.validatedAt = now
             /\ resp'.op = "resetValidated" => loadData(file').validated = Null
             /\ OrdersOf(loadData(file')) = OrdersOf(loadData(file))]_vars

-----------------------------------------------------------------------------
(* What a login keeps.                                                     *)

\* C33: a credential that a setup has stored stays: a setup that answers
\* success has stored the credential of its PIN, and a PIN that matches a
\* stored credential before a step of the server matches one after it, so
\* that a login with it goes on succeeding.
C33_SetupIsDurable ==
    [][(variant \in Family \cup {"jwt"})
       => /\ \A h \in pending :
                (/\ resp'.op = "setup" /\ resp'.code = 200
                 /\ F_SetupEnd(h) \/ J_SetupEnd(h))
                => ((\E slot \in Slots : Matches(slot, h.pin))')
          /\ \A pin \in SetupPins :
                (\E slot \in Slots : Matches(slot, pin))
                => ((\E slot \in Slots : Matches(slot, pin))')]_vars

-----------------------------------------------------------------------------
(* After a logout.                                                         *)

\* C34: a request that the session middleware would accept is not accepted
\* any more once a logout carrying the same cookie and the same bearer
\* header has answered success; and a session that is not accepted does not
\* come back when a login or a setup that was suspended completes: a
\* completing login makes acceptable only the requests that carry its own
\* new token.
C34_LogoutEndsSession ==
    [][\A req \in Reqs \cup BothReqs :
          /\ (/\ resp'.op = "logout" /\ resp'.code = 200
              /\ LogoutStep(req)
              /\ AuthOk(req))
             => ~(AuthOk(req)')
          /\ \A h \in pending :
                (/\ resp'.op \in {"login", "setup"}
                 /\ \/ F_SetupEnd(h)
                    \/ F_LoginEnd(h) /\ h.id \notin {req.cookie, req.bearer}
                 /\ ~AuthOk(req))
                => ~(AuthOk(req)')]_vars

-----------------------------------------------------------------------------
(* One credential for a PIN.                                               *)

\* C35: in the versions that store credentials under random ids, a PIN of
\* four digits matches at most one stored credential, before and after
\* every step; and a setup with the right secret whose PIN matches a stored
\* credential, while there is room for one more, is answered
\* PIN_ALREADY_EXISTS and stores nothing.
C35_OnePinOneCredential ==
    [][(variant \in Family)
       => \A pin \in SetupPins :
             /\ Cardinality({slot \in Slots : Matches(slot, pin)}) <= 1
             /\ (Cardinality({slot \in Slots : Matches(slot, pin)}) <= 1)'
             /\ (/\ resp'.op = "setup"
                 /\ F_SetupBegin(SETUP_SECRET, pin)
                 /\ CredentialCount < MAX_PINS
                 /\ \E slot \in Slots : Matches(slot, pin))
                => /\ resp'.code = 400
                   /\ resp'.body = [error |-> "PIN_ALREADY_EXISTS"]
                   /\ file' = file
                   /\ pending' = pending]_vars

C35_Witness ==
    /\ variant \in Family
    /\ resp.op = "setup" /\ resp.code = 400
    /\ resp.body = [error |-> "PIN_ALREADY_EXISTS"]
    /\ CredentialCount = 1
    /\ \E h \in pending : h.op = "setup" /\ \E slot \in Slots : ~Matches(slot, h.pin)

-----------------------------------------------------------------------------
(* The master PIN and the scopes.                                          *)

\* C36: in the scoped version a login with the master PIN is answered with
\* a session of scope admin whatever the stored pins are; no login is
\* answered with a scope whose stored PIN is the master PIN or the PIN of a
\* scope that comes earlier in the order of the login loop; and an admin
\* who sets such a PIN for a scope is answered ok and the PIN is stored.
C36_MasterPinShadows ==
    [][(variant = "scoped")
       => LET pins == S_loadData(file).pins
              Index(s) == CHOOSE j \in DOMAIN PinScopes : PinScopes[j] = s
              Earlier(s) == {e \in DOMAIN pins : Index(e) < Index(s)}
              Shadowed(s, hash) ==
                  \/ hash = hashPin(MASTER_PIN)
                  \/ \E e \in Earlier(s) : pins[e].hash = hash
          IN  /\ (resp'.op = "login" /\ S_Login(MASTER_PIN))
                 => /\ resp'.code = 200
                    /\ resp'.body.scope = "admin"
                    /\ resp'.body.token \in DOMAIN sessions' \ DOMAIN sessions
                    /\ sessions'[resp'.body.token].scope = "admin"
              /\ \A pin \in {"9999", "1234", "5678"} :
                    (resp'.op = "login" /\ resp'.code = 200 /\ S_Login(pin))
                    => \/ resp'.body.scope = "admin"
                       \/ /\ resp'.body.scope \in DOMAIN pins
                          /\ pins[resp'.body.scope].hash = hashPin(pin)
                          /\ ~Shadowed(resp'.body.scope, hashPin(pin))
              /\ \A req \in Reqs, scope \in {"petitdej", "bar", "recap"},
                    pin \in {"9999", "1234", "5678"} :
                    (/\ resp'.op = "setPin"
                     /\ S_SetPin(req, scope, pin)
                     /\ authMiddleware(req, now).code = 0
                     /\ authMiddleware(req, now).user.scope = "admin"
                     /\ Shadowed(scope, hashPin(pin)))
                    => /\ resp'.code = 200
                       /\ S_loadData(file').pins[scope].hash = hashPin(pin)]_vars

C36_Witness ==
    /\ variant = "scoped"
    /\ resp.op = "login" /\ resp.code = 200
    /\ resp.body.scope = "admin"
    /\ \E s \in DOMAIN S_loadData(file).pins :
          S_loadData(file).pins[s].hash = hashPin(MASTER_PIN)

-----------------------------------------------------------------------------
(* Tokens that nothing revokes.                                            *)

\* C37: in the jwt version a token that login has issued is accepted by
\* requireAuth for its role from the login until its expiry, JWT_EXPIRES_IN
\* after it was signed: no step of the server, a reset of the chef's PIN
\* included, makes requireAuth refuse a token it accepted and that has not
\* expired, and a validate request that carries an unexpired issued token
\* is not refused.
C37_TokenLivesToExpiry ==
    [][(variant = "jwt")
       => /\ \A token \in issued, roles \in {{"owner"}, {"chef"}, {"owner", "chef"}} :
                (requireAuth(roles, token, now) = 0 /\ now' < token.exp)
                => (requireAuth(roles, token, now) = 0)'
          /\ \A h \in pending :
                (resp'.op = "login" /\ resp'.code = 200 /\ J_LoginEnd(h))
                => /\ resp'.body.token.exp = now + JWT_EXPIRES_IN
                   /\ resp'.body.token.role = h.role
                   /\ resp'.body.token \in issued'
                   /\ JWT_EXPIRES_IN > 0 => now' < resp'.body.token.exp
          /\ \A token \in issued :
                (resp'.op = "validate" /\ J_Validate(token) /\ now < token.exp)
                => resp'.code = 200
          /\ \A h \in pending, token \in issued :
                (/\ resp'.op = "resetChef" /\ resp'.code = 200
                 /\ J_ResetChefEnd(h)
                 /\ token.role = "chef" /\ now < token.exp)
                => /\ file'.pins.chef.hash = BcryptHash(h.pin)
                   /\ (requireAuth({"owner", "chef"}, token, now) = 0)']_vars

C37_Witness ==
    /\ variant = "jwt"
    /\ resp.op = "validate" /\ resp.code = 200
    /\ resp.body.validatedAt = now
    /\ file.pins.chef # Null
    /\ file.pins.chef.resetAt # NoTime
    /\ \E token \in issued : now < token.exp
    /\ \A token \in issued :
          now < token.exp
          => /\ token.role = "chef"
             /\ token.exp - JWT_EXPIRES_IN <= file.pins.chef.resetAt

=============================================================================
